---------------------------- MODULE Spec2Model ----------------------------
(***************************************************************************)
(* Ports-and-adapters book service: the adapter registry/factory           *)
(* (adapters/factory.py), the two SQL backends (adapters/database/*.py)    *)
(* and the session factories they use (db/*/session.py).                   *)
(*                                                                         *)
(* The specifications share the variables:                                 *)
(*   Spec       the registry API called one call at a time;                *)
(*   SpecRace   AdapterFactory.create run by several threads, one source   *)
(*              line per step (get_db_adapter is a plain `def` dependency, *)
(*              which the framework runs on worker threads);               *)
(*   SpecShared create run while other threads change the registry;       *)
(*   SpecStore  one caller's calls of the selected backend against its     *)
(*              table, with the failures the database layer can raise at   *)
(*              each await;                                                *)
(*   SpecQuery  the same table read by search_books and get_books;         *)
(*   SpecSession the sessions the adapter calls open and close;            *)
(*   SpecHttp   the routes, one request at a time;                         *)
(*   SpecTasks  requests of two clients served at the same time.           *)
(* An adapter call takes one step per await: session entry, the execute of *)
(* its statement, the commit, the refresh or re-read after it, the         *)
(* rollback of its handler, session exit, return.  A request first runs    *)
(* AdapterFactory.create on a thread, one source line per step.            *)
(***************************************************************************)
EXTENDS Integers, Sequences, FiniteSets, TLC

VARIABLES
    registry,    \* AdapterFactory._registry : dict name -> adapter class
    instances,   \* AdapterFactory._instances: dict name -> adapter instance
    nextId,      \* identity of the next object a constructor call allocates
    last,        \* the last registry call: its arguments and its outcome
    pc,          \* SpecRace: per thread, the line of create() it is about to run
    tname,       \* SpecRace: per thread, the argument `name`
    tcls,        \* SpecRace: per thread, the local `adapter_class`
    tinst,       \* SpecRace: per thread, the local `instance`
    tret,        \* SpecRace: per thread, what create() returned or raised
    ctorLog,     \* SpecRace: the constructor calls made, in order (the names)
    dbType,      \* settings.DB_TYPE
    pgUri,       \* whether SQLALCHEMY_POSTGRES_DATABASE_URI is set in the environment
    mysqlUri,    \* whether SQLALCHEMY_MYSQL_DATABASE_URI is set in the environment
    collation,   \* the collation of the book table's text columns
    serving,     \* whether the process imported its modules and serves requests
    table,       \* the committed rows of the selected backend's book table
    nextUuid,    \* the next value uuid4() yields
    clock,       \* the database server's now()
    out,         \* the adapter call that returned or raised last: its arguments
                 \* and its outcome; none while the caller awaits the next call
    calls,       \* per task, the adapter calls it has in flight, innermost last
    open,        \* the sessions that are open
    resp,        \* the last HTTP response: its status and its body
    e2e          \* how far the requests on one book have followed
                 \* create, update(year), delete, get

regVars   == <<registry, instances, nextId, last>>
raceVars  == <<pc, tname, tcls, tinst, tret, ctorLog>>
envVars   == <<dbType, pgUri, mysqlUri, collation, serving>>
sessVars  == <<calls, open>>
reqVars   == <<resp, e2e>>
storeVars == <<envVars, table, nextUuid, clock, out, sessVars, reqVars>>
vars      == <<registry, instances, nextId, last, pc, tname, tcls, tinst, tret,
               ctorLog, dbType, pgUri, mysqlUri, collation, serving, table,
               nextUuid, clock, out, calls, open, resp, e2e>>

---------------------------------------------------------------------------
(* Bounds of the model. *)

\* constructor calls that allocate an object, at most
MaxInstances == 3

---------------------------------------------------------------------------
(* Python dict, insertion-ordered: a sequence of [key, val] without         *)
(* repeated keys.                                                           *)

DictHas(d, k) == \E i \in 1..Len(d) : d[i].key = k

DictGet(d, k) == d[CHOOSE i \in 1..Len(d) : d[i].key = k].val

DictKeys(d) == [i \in 1..Len(d) |-> d[i].key]

DictSet(d, k, v) ==
    IF DictHas(d, k)
    THEN [i \in 1..Len(d) |-> IF d[i].key = k THEN [key |-> k, val |-> v] ELSE d[i]]
    ELSE Append(d, [key |-> k, val |-> v])

DictDel(d, k) == SelectSeq(d, LAMBDA e : e.key # k)

Range(s) == {s[i] : i \in 1..Len(s)}

---------------------------------------------------------------------------
(* Adapter names and adapter classes.                                       *)

Names == {"postgres", "mysql", "oracle"}

\* the names register() is called with ("oracle" is never registered)
RegisterNames == {"postgres", "mysql"}

\* The operation set BaseAdapter declares abstract.
AbstractOps ==
    {"create_book", "get_book", "get_books", "update_book", "delete_book",
     "search_books", "health_check", "adapter_name"}

\* The classes a caller can hand to register(): the two shipped adapters, a
\* subclass of BaseAdapter that leaves operations abstract, a class that has
\* every operation but does not inherit from BaseAdapter, and a complete
\* subclass whose __init__ raises.
AdapterClasses ==
    {"PostgresAdapter", "MySQLAdapter", "PartialAdapter", "DuckAdapter",
     "RaisingAdapter"}

\* issubclass(adapter_class, BaseAdapter)
IsSubclassOfBase(c) == c # "DuckAdapter"

\* the operations the class defines
Implements(c) ==
    IF c = "PartialAdapter" THEN {"adapter_name", "health_check"} ELSE AbstractOps

\* cls.__abstractmethods__: what ABC still holds abstract in the class
AbstractMethods(c) ==
    IF IsSubclassOfBase(c) THEN AbstractOps \ Implements(c) ELSE {}

\* whether the class's own __init__ raises
InitRaises(c) == c = "RaisingAdapter"

NoInstance == [id |-> 0, cls |-> "None"]

\* adapter_class(): ABC refuses to instantiate a class with abstract methods
\* left; otherwise __init__ runs and the new object gets the identity `id`.
Construct(c, id) ==
    IF AbstractMethods(c) # {}
    THEN [exc |-> "TypeError: abstract class", obj |-> NoInstance]
    ELSE IF InitRaises(c)
    THEN [exc |-> "RuntimeError: __init__", obj |-> NoInstance]
    ELSE [exc |-> "None", obj |-> [id |-> id, cls |-> c]]

---------------------------------------------------------------------------
(* The registry API, one call per step.                                     *)

Call(op, n, c) ==
    [op |-> op, name |-> n, cls |-> c, exc |-> "None", avail |-> <<>>,
     ret |-> NoInstance, listed |-> <<>>, ctor |-> FALSE]

\* _register_default_adapters(), run when the module is imported
DefaultRegistry ==
    << [key |-> "postgres", val |-> "PostgresAdapter"],
       [key |-> "mysql",    val |-> "MySQLAdapter"] >>

\* register without the already-registered check: a second register rebinds
register_overwrite(n, c) ==
    IF ~IsSubclassOfBase(c)
    THEN /\ last' = [Call("register", n, c) EXCEPT !.exc = "TypeError: must inherit"]
         /\ UNCHANGED <<registry, instances, nextId>>
    ELSE /\ registry' = DictSet(registry, n, c)
         /\ last' = Call("register", n, c)
         /\ UNCHANGED <<instances, nextId>>

\* AdapterFactory.register
register(n, c) ==
    IF DictHas(registry, n)
    THEN /\ last' = [Call("register", n, c) EXCEPT !.exc = "ValueError: already registered"]
         /\ UNCHANGED <<registry, instances, nextId>>
    ELSE IF ~IsSubclassOfBase(c)
    THEN /\ last' = [Call("register", n, c) EXCEPT !.exc = "TypeError: must inherit"]
         /\ UNCHANGED <<registry, instances, nextId>>
    ELSE /\ registry' = DictSet(registry, n, c)
         /\ last' = Call("register", n, c)
         /\ UNCHANGED <<instances, nextId>>

\* unregister that forgets the cached instance
unregister_keeps_instance(n) ==
    /\ registry' = IF DictHas(registry, n) THEN DictDel(registry, n) ELSE registry
    /\ last' = Call("unregister", n, "None")
    /\ UNCHANGED <<instances, nextId>>

\* AdapterFactory.unregister
unregister(n) ==
    /\ registry' = IF DictHas(registry, n) THEN DictDel(registry, n) ELSE registry
    /\ instances' = IF DictHas(instances, n) THEN DictDel(instances, n) ELSE instances
    /\ last' = Call("unregister", n, "None")
    /\ UNCHANGED nextId

\* create that returns the new instance without caching it
create_nocache(n) ==
    IF DictHas(instances, n)
    THEN /\ last' = [Call("create", n, "None") EXCEPT !.ret = DictGet(instances, n)]
         /\ UNCHANGED <<registry, instances, nextId>>
    ELSE IF ~DictHas(registry, n)
    THEN /\ last' = [Call("create", n, "None") EXCEPT
                        !.exc = "ValueError: not registered",
                        !.avail = DictKeys(registry)]
         /\ UNCHANGED <<registry, instances, nextId>>
    ELSE LET c == DictGet(registry, n)
             r == Construct(c, nextId)
         IN  IF r.exc # "None"
             THEN /\ last' = [Call("create", n, c) EXCEPT !.exc = r.exc, !.ctor = TRUE]
                  /\ UNCHANGED <<registry, instances, nextId>>
             ELSE /\ nextId <= MaxInstances
                  /\ nextId' = nextId + 1
                  /\ last' = [Call("create", n, c) EXCEPT !.ret = r.obj, !.ctor = TRUE]
                  /\ UNCHANGED <<registry, instances>>

\* create whose not-registered error lists the cached names instead of the
\* registered ones
create_lists_cached(n) ==
    IF DictHas(instances, n)
    THEN /\ last' = [Call("create", n, "None") EXCEPT !.ret = DictGet(instances, n)]
         /\ UNCHANGED <<registry, instances, nextId>>
    ELSE IF ~DictHas(registry, n)
    THEN /\ last' = [Call("create", n, "None") EXCEPT
                        !.exc = "ValueError: not registered",
                        !.avail = DictKeys(instances)]
         /\ UNCHANGED <<registry, instances, nextId>>
    ELSE LET c == DictGet(registry, n)
             r == Construct(c, nextId)
         IN  IF r.exc # "None"
             THEN /\ last' = [Call("create", n, c) EXCEPT !.exc = r.exc, !.ctor = TRUE]
                  /\ UNCHANGED <<registry, instances, nextId>>
             ELSE /\ nextId <= MaxInstances
                  /\ instances' = DictSet(instances, n, r.obj)
                  /\ nextId' = nextId + 1
                  /\ last' = [Call("create", n, c) EXCEPT !.ret = r.obj, !.ctor = TRUE]
                  /\ UNCHANGED registry

\* create that puts the object in the cache before the constructor has run
create_caches_first(n) ==
    IF DictHas(instances, n)
    THEN /\ last' = [Call("create", n, "None") EXCEPT !.ret = DictGet(instances, n)]
         /\ UNCHANGED <<registry, instances, nextId>>
    ELSE IF ~DictHas(registry, n)
    THEN /\ last' = [Call("create", n, "None") EXCEPT
                        !.exc = "ValueError: not registered",
                        !.avail = DictKeys(registry)]
         /\ UNCHANGED <<registry, instances, nextId>>
    ELSE LET c == DictGet(registry, n)
             r == Construct(c, nextId)
         IN  IF r.exc # "None"
             THEN /\ last' = [Call("create", n, c) EXCEPT !.exc = r.exc, !.ctor = TRUE]
                  /\ instances' = DictSet(instances, n, [id |-> 0, cls |-> c])
                  /\ UNCHANGED <<registry, nextId>>
             ELSE /\ nextId <= MaxInstances
                  /\ instances' = DictSet(instances, n, r.obj)
                  /\ nextId' = nextId + 1
                  /\ last' = [Call("create", n, c) EXCEPT !.ret = r.obj, !.ctor = TRUE]
                  /\ UNCHANGED registry

\* AdapterFactory.create, and get_adapter / get_db_adapter which only call it
create(n) ==
    IF DictHas(instances, n)
    THEN /\ last' = [Call("create", n, "None") EXCEPT !.ret = DictGet(instances, n)]
         /\ UNCHANGED <<registry, instances, nextId>>
    ELSE IF ~DictHas(registry, n)
    THEN /\ last' = [Call("create", n, "None") EXCEPT
                        !.exc = "ValueError: not registered",
                        !.avail = DictKeys(registry)]
         /\ UNCHANGED <<registry, instances, nextId>>
    ELSE LET c == DictGet(registry, n)
             r == Construct(c, nextId)
         IN  IF r.exc # "None"
             THEN /\ last' = [Call("create", n, c) EXCEPT !.exc = r.exc, !.ctor = TRUE]
                  /\ UNCHANGED <<registry, instances, nextId>>
             ELSE /\ nextId <= MaxInstances
                  /\ instances' = DictSet(instances, n, r.obj)
                  /\ nextId' = nextId + 1
                  /\ last' = [Call("create", n, c) EXCEPT !.ret = r.obj, !.ctor = TRUE]
                  /\ UNCHANGED registry

\* AdapterFactory.get_registered_adapters
get_registered_adapters ==
    /\ last' = [Call("get_registered_adapters", "None", "None") EXCEPT
                   !.listed = DictKeys(registry)]
    /\ UNCHANGED <<registry, instances, nextId>>

\* reset that leaves the cache as it is
reset_keeps_cache ==
    /\ last' = Call("reset", "None", "None")
    /\ UNCHANGED <<registry, instances, nextId>>

\* AdapterFactory.reset
reset ==
    /\ instances' = <<>>
    /\ last' = Call("reset", "None", "None")
    /\ UNCHANGED <<registry, nextId>>

\* clear_registry that empties the registrations only
clear_registry_keeps_cache ==
    /\ registry' = <<>>
    /\ last' = Call("clear_registry", "None", "None")
    /\ UNCHANGED <<instances, nextId>>

\* AdapterFactory.clear_registry
clear_registry ==
    /\ registry' = <<>>
    /\ instances' = <<>>
    /\ last' = Call("clear_registry", "None", "None")
    /\ UNCHANGED nextId

RegInit ==
    /\ registry = DefaultRegistry
    /\ instances = <<>>
    /\ nextId = 1
    /\ last = Call("import", "None", "None")


---------------------------------------------------------------------------
(* AdapterFactory.create run by worker threads, one source line per step.   *)
(* The class attributes are shared; name, adapter_class and instance are    *)
(* locals of each call.  No lock is taken anywhere in factory.py.           *)

\* threads calling get_db_adapter() at the same time
NThreads == 2

Threads == 1..NThreads

NoResult == [exc |-> "None", obj |-> NoInstance]

\* a thread enters create(name)
Enter(t, n) ==
    /\ pc[t] = "idle"
    /\ pc' = [pc EXCEPT ![t] = "L78"]
    /\ tname' = [tname EXCEPT ![t] = n]
    /\ UNCHANGED <<registry, instances, nextId, last, tcls, tinst, tret, ctorLog>>

\* line 78: if name in cls._instances
L78(t) ==
    /\ pc[t] = "L78"
    /\ pc' = [pc EXCEPT ![t] = IF DictHas(instances, tname[t]) THEN "L79" ELSE "L82"]
    /\ UNCHANGED <<registry, instances, nextId, last, tname, tcls, tinst, tret, ctorLog>>

\* line 79: return cls._instances[name]
L79(t) ==
    /\ pc[t] = "L79"
    /\ pc' = [pc EXCEPT ![t] = "done"]
    /\ tret' = [tret EXCEPT ![t] =
                   IF DictHas(instances, tname[t])
                   THEN [exc |-> "None", obj |-> DictGet(instances, tname[t])]
                   ELSE [exc |-> "KeyError", obj |-> NoInstance]]
    /\ UNCHANGED <<registry, instances, nextId, last, tname, tcls, tinst, ctorLog>>

\* lines 82-86: if name not in cls._registry: raise ValueError(...)
L82(t) ==
    /\ pc[t] = "L82"
    /\ IF DictHas(registry, tname[t])
       THEN /\ pc' = [pc EXCEPT ![t] = "L89"]
            /\ UNCHANGED tret
       ELSE /\ pc' = [pc EXCEPT ![t] = "done"]
            /\ tret' = [tret EXCEPT ![t] =
                           [exc |-> "ValueError: not registered", obj |-> NoInstance]]
    /\ UNCHANGED <<registry, instances, nextId, last, tname, tcls, tinst, ctorLog>>

\* line 89: adapter_class = cls._registry[name]
L89(t) ==
    /\ pc[t] = "L89"
    /\ IF DictHas(registry, tname[t])
       THEN /\ pc' = [pc EXCEPT ![t] = "L90"]
            /\ tcls' = [tcls EXCEPT ![t] = DictGet(registry, tname[t])]
            /\ UNCHANGED tret
       ELSE /\ pc' = [pc EXCEPT ![t] = "done"]
            /\ tret' = [tret EXCEPT ![t] = [exc |-> "KeyError", obj |-> NoInstance]]
            /\ UNCHANGED tcls
    /\ UNCHANGED <<registry, instances, nextId, last, tname, tinst, ctorLog>>

\* line 90: instance = adapter_class()
L90(t) ==
    /\ pc[t] = "L90"
    /\ LET r == Construct(tcls[t], nextId)
       IN  /\ ctorLog' = Append(ctorLog, tname[t])
           /\ IF r.exc # "None"
              THEN /\ pc' = [pc EXCEPT ![t] = "done"]
                   /\ tret' = [tret EXCEPT ![t] = r]
                   /\ UNCHANGED <<tinst, nextId>>
              ELSE /\ pc' = [pc EXCEPT ![t] = "L91"]
                   /\ tinst' = [tinst EXCEPT ![t] = r.obj]
                   /\ nextId' = nextId + 1
                   /\ UNCHANGED tret
    /\ UNCHANGED <<registry, instances, last, tname, tcls>>

\* line 91: cls._instances[name] = instance
L91(t) ==
    /\ pc[t] = "L91"
    /\ instances' = DictSet(instances, tname[t], tinst[t])
    /\ pc' = [pc EXCEPT ![t] = "L93"]
    /\ UNCHANGED <<registry, nextId, last, tname, tcls, tinst, tret, ctorLog>>

\* line 93: return instance
L93(t) ==
    /\ pc[t] = "L93"
    /\ pc' = [pc EXCEPT ![t] = "done"]
    /\ tret' = [tret EXCEPT ![t] = [exc |-> "None", obj |-> tinst[t]]]
    /\ UNCHANGED <<registry, instances, nextId, last, tname, tcls, tinst, ctorLog>>

\* a thread enters unregister(name)
EnterUnregister(t, n) ==
    /\ pc[t] = "idle"
    /\ pc' = [pc EXCEPT ![t] = "L55"]
    /\ tname' = [tname EXCEPT ![t] = n]
    /\ UNCHANGED <<registry, instances, nextId, last, tcls, tinst, tret, ctorLog>>

\* line 55: if name in cls._registry
L55(t) ==
    /\ pc[t] = "L55"
    /\ pc' = [pc EXCEPT ![t] = IF DictHas(registry, tname[t]) THEN "L56" ELSE "L57"]
    /\ UNCHANGED <<registry, instances, nextId, last, tname, tcls, tinst, tret, ctorLog>>

\* line 56: del cls._registry[name]
L56(t) ==
    /\ pc[t] = "L56"
    /\ IF DictHas(registry, tname[t])
       THEN /\ registry' = DictDel(registry, tname[t])
            /\ pc' = [pc EXCEPT ![t] = "L57"]
            /\ UNCHANGED tret
       ELSE /\ pc' = [pc EXCEPT ![t] = "end"]
            /\ tret' = [tret EXCEPT ![t] = [exc |-> "KeyError", obj |-> NoInstance]]
            /\ UNCHANGED registry
    /\ UNCHANGED <<instances, nextId, last, tname, tcls, tinst, ctorLog>>

\* line 57: if name in cls._instances
L57(t) ==
    /\ pc[t] = "L57"
    /\ pc' = [pc EXCEPT ![t] = IF DictHas(instances, tname[t]) THEN "L58" ELSE "end"]
    /\ UNCHANGED <<registry, instances, nextId, last, tname, tcls, tinst, tret, ctorLog>>

\* line 58: del cls._instances[name]
L58(t) ==
    /\ pc[t] = "L58"
    /\ pc' = [pc EXCEPT ![t] = "end"]
    /\ IF DictHas(instances, tname[t])
       THEN /\ instances' = DictDel(instances, tname[t])
            /\ UNCHANGED tret
       ELSE /\ tret' = [tret EXCEPT ![t] = [exc |-> "KeyError", obj |-> NoInstance]]
            /\ UNCHANGED instances
    /\ UNCHANGED <<registry, nextId, last, tname, tcls, tinst, ctorLog>>

\* a thread enters reset()
EnterReset(t) ==
    /\ pc[t] = "idle"
    /\ pc' = [pc EXCEPT ![t] = "L113"]
    /\ UNCHANGED <<registry, instances, nextId, last, tname, tcls, tinst, tret, ctorLog>>

\* line 113: cls._instances = {}
L113(t) ==
    /\ pc[t] = "L113"
    /\ instances' = <<>>
    /\ pc' = [pc EXCEPT ![t] = "end"]
    /\ UNCHANGED <<registry, nextId, last, tname, tcls, tinst, tret, ctorLog>>

\* a thread enters clear_registry()
EnterClearRegistry(t) ==
    /\ pc[t] = "idle"
    /\ pc' = [pc EXCEPT ![t] = "L123"]
    /\ UNCHANGED <<registry, instances, nextId, last, tname, tcls, tinst, tret, ctorLog>>

\* line 123: cls._registry = {}
L123(t) ==
    /\ pc[t] = "L123"
    /\ registry' = <<>>
    /\ pc' = [pc EXCEPT ![t] = "L124"]
    /\ UNCHANGED <<instances, nextId, last, tname, tcls, tinst, tret, ctorLog>>

\* line 124: cls._instances = {}
L124(t) ==
    /\ pc[t] = "L124"
    /\ instances' = <<>>
    /\ pc' = [pc EXCEPT ![t] = "end"]
    /\ UNCHANGED <<registry, nextId, last, tname, tcls, tinst, tret, ctorLog>>

\* the caller has its result ("done" after create, "end" after the others)
\* and the thread is free for the next call
Again(t) ==
    /\ pc[t] \in {"done", "end"}
    /\ Len(ctorLog) < MaxInstances
    /\ pc' = [pc EXCEPT ![t] = "idle"]
    /\ tname' = [tname EXCEPT ![t] = "None"]
    /\ tcls' = [tcls EXCEPT ![t] = "None"]
    /\ tinst' = [tinst EXCEPT ![t] = NoInstance]
    /\ tret' = [tret EXCEPT ![t] = NoResult]
    /\ UNCHANGED <<registry, instances, nextId, last, ctorLog>>

RaceInit ==
    /\ pc = [t \in Threads |-> "idle"]
    /\ tname = [t \in Threads |-> "None"]
    /\ tcls = [t \in Threads |-> "None"]
    /\ tinst = [t \in Threads |-> NoInstance]
    /\ tret = [t \in Threads |-> NoResult]
    /\ ctorLog = <<>>

---------------------------------------------------------------------------
(* The backends.  One process serves one backend, settings.DB_TYPE; its     *)
(* adapter opens a session per call (async with AsyncSessionLocal()) and    *)
(* awaits the database at execute, commit and refresh.  A fault says at     *)
(* which await of the call the database layer raises, and what: an error    *)
(* of the SQLAlchemyError family, or another exception (a socket error, a   *)
(* timeout) that the driver lets through unwrapped.                         *)

\* uuid4() calls made, at most
MaxUuid == 2

\* the furthest the database clock advances
MaxClock == 1

DbTypes == {"postgres", "mysql"}

\* Text is a sequence of characters, so that LIKE can look inside it.
Titles == { <<"D", "u", "n", "e">>, <<"W", "a", "r">> }
Authors == { <<"H", "e", "r", "b", "e", "r", "t">> }
Years == {0, 1965}

\* Optional[T]: None is the empty sequence, a value v is <<v>>
None == <<>>
Some(v) == <<v>>
Optional(S) == {None} \cup {Some(v) : v \in S}

\* str(uuid): the canonical text of a UUID
UuidStr(k) == <<"uuid-str", k>>

\* datetime.isoformat()
IsoFormat(t) == <<"iso", t>>

\* the value the id column holds: native UUID in PostgreSQL, CHAR(36) in MySQL
StoredId(b, k) == IF b = "mysql" THEN UuidStr(k) ELSE k

\* BaseAdapter.adapter_name
adapter_name(b) == IF b = "mysql" THEN "mysql" ELSE "postgresql"

\* the backend name the adapters put in front of their error messages
ErrPrefix(b) == IF b = "mysql" THEN "MySQL" ELSE "PostgreSQL"

\* whether the backend's AsyncSessionLocal is a session factory (db/*/session.py):
\* the MySQL one is None when its URI is not set; the PostgreSQL module does not
\* import without its URI
HasSessionFactory(b, uriSet) == b = "postgres" \/ uriSet

NoFault == [at |-> "none", exc |-> "None"]

FaultKinds == {"SQLAlchemyError", "OSError"}

FaultsAt(points) == {NoFault} \cup [at : points, exc : FaultKinds]

\* the Book object the session loads from a row: every attribute has the
\* value of its column
Book(row) == [row EXCEPT !.created_on = Some(@)]

\* _book_to_dict
book_to_dict(b, book) ==
    [id |-> IF b = "mysql" THEN book.id ELSE UuidStr(book.id),
     title |-> book.title, author |-> book.author, year |-> book.year,
     created_on |-> IF book.created_on # None
                    THEN IsoFormat(book.created_on[1]) ELSE None]

\* a call that has not returned or raised yet
Pending == [kind |-> "pending", exc |-> "None", prefix |-> "None",
            cause |-> "None", val |-> None]

\* what a call gives back to its caller
Returned(v) == [kind |-> "return", exc |-> "None", prefix |-> "None", cause |-> "None", val |-> v]

\* raise Exception(f"<Backend>: Failed to ...: {str(e)}")
Wrapped(b, cause) ==
    [kind |-> "raise", exc |-> "Exception", prefix |-> ErrPrefix(b), cause |-> cause, val |-> None]

\* an exception that leaves the call as it was raised
Raw(exc) == [kind |-> "raise", exc |-> exc, prefix |-> "None", cause |-> exc, val |-> None]

\* `except SQLAlchemyError as e: ... raise Exception(...)`: what the handler
\* of a call makes of an exception raised inside its try block
Handled(b, exc) == IF exc = "SQLAlchemyError" THEN Wrapped(b, exc) ELSE Raw(exc)

\* AsyncSessionLocal() when AsyncSessionLocal is None
NoFactory == Raw("TypeError")

\* MySQLAdapter.get_book / PostgresAdapter.get_book
get_book(b, uriSet, tbl, k, fault) ==
    IF ~HasSessionFactory(b, uriSet) THEN NoFactory
    ELSE IF fault.at = "execute" THEN Handled(b, fault.exc)
    ELSE LET hit == {r \in tbl : r.id = StoredId(b, k)}
         IN  IF hit = {} THEN Returned(None)
             ELSE Returned(Some(book_to_dict(b, Book(CHOOSE r \in hit : TRUE))))

\* create_book up to and including `await session.commit()`: the Book is
\* built with uuid4(), added and committed; the server sets created_on to
\* its now() in the INSERT.  The call goes on to refresh the Book.
create_book(b, tbl, uuid, now, title, author, year, fault) ==
    LET row == [id |-> StoredId(b, uuid), title |-> title, author |-> author,
                year |-> year, created_on |-> now]
    IN  IF fault.at = "commit"
        THEN [table |-> tbl, res |-> Handled(b, fault.exc)]
        ELSE [table |-> tbl \cup {row}, res |-> Pending]

\* the Book of create_book before it is refreshed: created_on is not loaded
Unrefreshed(b, uuid, title, author, year) ==
    [id |-> StoredId(b, uuid), title |-> title, author |-> author,
     year |-> year, created_on |-> None]

\* a refresh that reads nothing: the Book is returned as it was built
refresh_skipped(b, tbl, book, fault) ==
    IF fault.at = "refresh" THEN Handled(b, fault.exc)
    ELSE Returned(Some(book_to_dict(b, book)))

\* `await session.refresh(book)` and `return self._book_to_dict(book)` of
\* create_book: the row of the Book is read again, as it is stored by then;
\* where it is no longer stored the session raises InvalidRequestError, which
\* is an SQLAlchemyError
refresh(b, tbl, book, fault) ==
    IF fault.at = "refresh" THEN Handled(b, fault.exc)
    ELSE LET hit == {r \in tbl : r.id = book.id}
         IN  IF hit = {} THEN Wrapped(b, "InvalidRequestError")
             ELSE Returned(Some(book_to_dict(b, Book(CHOOSE r \in hit : TRUE))))

\* update_values built with `if year:` in place of `if year is not None:`
update_values_truthy(title, author, year) ==
    [title |-> title, author |-> author,
     year |-> IF year = Some(0) THEN None ELSE year]

\* the dict update_values built from the arguments that are not None
update_values(title, author, year) ==
    [title |-> title, author |-> author, year |-> year]

\* an UPDATE on a table whose created_on column moves with every update
ApplyUpdate_touch(tbl, sid, vals) ==
    {IF r.id = sid
     THEN [r EXCEPT !.title = IF vals.title # None THEN vals.title[1] ELSE @,
                    !.author = IF vals.author # None THEN vals.author[1] ELSE @,
                    !.year = IF vals.year # None THEN vals.year[1] ELSE @,
                    !.created_on = @ + 1]
     ELSE r : r \in tbl}

\* UPDATE book SET ... WHERE id = ...
ApplyUpdate(tbl, sid, vals) ==
    {IF r.id = sid
     THEN [r EXCEPT !.title = IF vals.title # None THEN vals.title[1] ELSE @,
                    !.author = IF vals.author # None THEN vals.author[1] ELSE @,
                    !.year = IF vals.year # None THEN vals.year[1] ELSE @]
     ELSE r : r \in tbl}

\* update_book of a MySQL connection that reports the rows changed, not the
\* rows matched, as rowcount
update_book_changed_rows(b, tbl, k, title, author, year, fault) ==
    LET vals == update_values(title, author, year)
        sid == StoredId(b, k)
        hit == {r \in tbl : r.id = sid}
        new == ApplyUpdate(tbl, sid, vals)
    IN  IF vals.title = None /\ vals.author = None /\ vals.year = None
        THEN [table |-> tbl, res |-> Pending, matched |-> FALSE, get |-> TRUE]
        ELSE IF fault.at \in {"execute", "commit"}
        THEN [table |-> tbl, res |-> Handled(b, fault.exc), matched |-> FALSE,
              get |-> FALSE]
        ELSE IF b = "mysql"
        THEN [table |-> new,
              res |-> IF new # tbl THEN Pending ELSE Returned(None),
              matched |-> hit # {}, get |-> new # tbl]
        ELSE [table |-> new,
              res |-> IF hit # {}
                      THEN Returned(Some(book_to_dict(b,
                               Book(CHOOSE r \in new : r.id = sid))))
                      ELSE Returned(None),
              matched |-> hit # {}, get |-> FALSE]

\* MySQLAdapter.update_book / PostgresAdapter.update_book up to its return,
\* its raise or its `return await self.get_book(book_id)`: with no value
\* given both adapters go to get_book at once; else the UPDATE and its commit
\* are applied, and the MySQL adapter goes to get_book where rowcount > 0
\* (the rows matched), while the PostgreSQL adapter has the row from
\* UPDATE ... RETURNING.  `get` says that the call goes on to get_book,
\* `matched` that the UPDATE found a row.
update_book(b, tbl, k, title, author, year, fault) ==
    LET vals == update_values(title, author, year)
        sid == StoredId(b, k)
        hit == {r \in tbl : r.id = sid}
        new == ApplyUpdate(tbl, sid, vals)
    IN  IF vals.title = None /\ vals.author = None /\ vals.year = None
        THEN [table |-> tbl, res |-> Pending, matched |-> FALSE, get |-> TRUE]
        ELSE IF fault.at \in {"execute", "commit"}
        THEN [table |-> tbl, res |-> Handled(b, fault.exc), matched |-> FALSE,
              get |-> FALSE]
        ELSE IF b = "mysql"
        THEN [table |-> new,
              res |-> IF hit # {} THEN Pending ELSE Returned(None),
              matched |-> hit # {}, get |-> hit # {}]
        ELSE [table |-> new,
              res |-> IF hit # {}
                      THEN Returned(Some(book_to_dict(b,
                               Book(CHOOSE r \in new : r.id = sid))))
                      ELSE Returned(None),
              matched |-> hit # {}, get |-> FALSE]

\* delete_book returning `result.rowcount >= 0`
delete_book_always(b, uriSet, tbl, k, fault) ==
    IF ~HasSessionFactory(b, uriSet) THEN [table |-> tbl, res |-> NoFactory]
    ELSE IF fault.at \in {"execute", "commit"}
    THEN [table |-> tbl, res |-> Handled(b, fault.exc)]
    ELSE LET sid == StoredId(b, k)
         IN  [table |-> {r \in tbl : r.id # sid}, res |-> Returned(TRUE)]

\* MySQLAdapter.delete_book / PostgresAdapter.delete_book
delete_book(b, uriSet, tbl, k, fault) ==
    IF ~HasSessionFactory(b, uriSet) THEN [table |-> tbl, res |-> NoFactory]
    ELSE IF fault.at \in {"execute", "commit"}
    THEN [table |-> tbl, res |-> Handled(b, fault.exc)]
    ELSE LET sid == StoredId(b, k)
         IN  [table |-> {r \in tbl : r.id # sid},
              res |-> Returned(\E r \in tbl : r.id = sid)]

\* MySQLAdapter.health_check / PostgresAdapter.health_check
health_check(b, uriSet, fault) ==
    IF ~HasSessionFactory(b, uriSet) THEN NoFactory
    ELSE IF fault.at = "execute"
    THEN IF fault.exc = "SQLAlchemyError"
         THEN Returned([adapter |-> adapter_name(b), status |-> "unhealthy",
                        error |-> fault.exc])
         ELSE Raw(fault.exc)
    ELSE Returned([adapter |-> adapter_name(b), status |-> "healthy",
                   error |-> "None"])

\* str.lower on the letters the books use
Lower(c) ==
    CASE c = "D" -> "d" [] c = "W" -> "w" [] c = "H" -> "h"
      [] c = "E" -> "e" [] c = "R" -> "r" [] OTHER -> c

LowerStr(s) == [i \in 1..Len(s) |-> Lower(s[i])]

\* s LIKE '%sub%' compared character by character
Contains(s, sub) ==
    \E i \in 0..(Len(s) - Len(sub)) : SubSeq(s, i + 1, i + Len(sub)) = sub

\* Book.title.like(f"%{title}%") in MySQL: LIKE compares under the collation of
\* the column
like(coll, s, sub) ==
    IF coll = "ci" THEN Contains(LowerStr(s), LowerStr(sub)) ELSE Contains(s, sub)

\* Book.title.ilike(f"%{title}%") in PostgreSQL
ilike(s, sub) == Contains(LowerStr(s), LowerStr(sub))

\* the text filter of the backend's search_books
TextMatch(b, coll, s, sub) == IF b = "mysql" THEN like(coll, s, sub) ELSE ilike(s, sub)

\* `if title:` / `if author:` on an Optional[str] argument
TruthyStr(arg) == arg # None /\ arg[1] # <<>>

\* `if year:` on an Optional[int] argument
TruthyInt(arg) == arg # None /\ arg[1] # 0

\* the rows the WHERE clauses of search_books keep
search_where(b, coll, tbl, title, author, year) ==
    {r \in tbl :
        /\ TruthyStr(title) => TextMatch(b, coll, r.title, title[1])
        /\ TruthyStr(author) => TextMatch(b, coll, r.author, author[1])
        /\ TruthyInt(year) => r.year = year[1]}

Perms(S) ==
    {f \in [1..Cardinality(S) -> S] : \A i, j \in DOMAIN f : f[i] = f[j] => i = j}

\* ORDER BY created_on DESC: the orders the database may give the rows; rows
\* with the same created_on come in any order
OrderByCreatedOnDesc(rows) ==
    {f \in Perms(rows) :
        \A i, j \in DOMAIN f : i < j => f[i].created_on >= f[j].created_on}

\* [self._book_to_dict(book) for book in books]
Dicts(b, rows) == [i \in 1..Len(rows) |-> book_to_dict(b, Book(rows[i]))]

Min(x, y) == IF x < y THEN x ELSE y

\* OFFSET skip LIMIT limit
OffsetLimit(rows, skip, limit) == SubSeq(rows, skip + 1, Min(Len(rows), skip + limit))

\* get_books that leaves .offset(skip) out
get_books_nooffset(b, uriSet, tbl, skip, limit, fault) ==
    IF ~HasSessionFactory(b, uriSet) THEN {NoFactory}
    ELSE IF fault.at = "execute" THEN {Handled(b, fault.exc)}
    ELSE {Returned(Dicts(b, OffsetLimit(rows, 0, limit))) :
             rows \in OrderByCreatedOnDesc(tbl)}

\* MySQLAdapter.get_books / PostgresAdapter.get_books: the results the call
\* may have
get_books(b, uriSet, tbl, skip, limit, fault) ==
    IF ~HasSessionFactory(b, uriSet) THEN {NoFactory}
    ELSE IF fault.at = "execute" THEN {Handled(b, fault.exc)}
    ELSE {Returned(Dicts(b, OffsetLimit(rows, skip, limit))) :
             rows \in OrderByCreatedOnDesc(tbl)}

\* search_books that leaves .order_by(Book.created_on.desc()) out
search_books_noorder(b, uriSet, coll, tbl, title, author, year, fault) ==
    IF ~HasSessionFactory(b, uriSet) THEN {NoFactory}
    ELSE IF fault.at = "execute" THEN {Handled(b, fault.exc)}
    ELSE {Returned(Dicts(b, rows)) :
             rows \in Perms(search_where(b, coll, tbl, title, author, year))}

\* MySQLAdapter.search_books / PostgresAdapter.search_books: the results the
\* call may have
search_books(b, uriSet, coll, tbl, title, author, year, fault) ==
    IF ~HasSessionFactory(b, uriSet) THEN {NoFactory}
    ELSE IF fault.at = "execute" THEN {Handled(b, fault.exc)}
    ELSE {Returned(Dicts(b, rows)) :
             rows \in OrderByCreatedOnDesc(
                         search_where(b, coll, tbl, title, author, year))}

\* the adapter call that returned or raised last
Done(op, k, title, author, year, res) ==
    [op |-> op, id |-> k, title |-> title, author |-> author, year |-> year,
     res |-> res]

\* the last get_books call
DoneList(skip, limit, res) ==
    [op |-> "get_books", id |-> 0, title |-> None, author |-> None, year |-> None,
     res |-> res, skip |-> skip, limit |-> limit]

NoCall == Done("start", 0, None, None, None, Returned(None))

\* Importing the application: app/core/config.py builds Settings(), whose
\* SQLALCHEMY_POSTGRES_DATABASE_URI has no default, and adapters/database
\* imports both adapters, so db/postgres/session.py raises without its URI
\* whichever backend is selected; db/mysql/session.py sets engine and
\* AsyncSessionLocal to None without its URI and raises nothing.
startup(db, pgSet, mysqlSet) == pgSet

\* the collations a MySQL text column can have: a case-insensitive one (the
\* server default) or a binary / case-sensitive one
Collations == {"ci", "bin"}

---------------------------------------------------------------------------
(* The HTTP boundary: app/routers/books.py and GET /health of app/main.py.  *)
(* The dependency get_db_adapter resolves the adapter of settings.DB_TYPE,  *)
(* the handler awaits the adapter operation and maps its outcome to a       *)
(* status.                                                                  *)

HTTP_200_OK == 200
HTTP_201_CREATED == 201
HTTP_204_NO_CONTENT == 204
HTTP_404_NOT_FOUND == 404
HTTP_500_INTERNAL_SERVER_ERROR == 500
HTTP_503_SERVICE_UNAVAILABLE == 503

\* a response: the route, whether the adapter operation was awaited, the
\* status and the JSON body (None where the body is an error detail)
Response(route, called, status, body) ==
    [route |-> route, called |-> called, status |-> status, body |-> body]

\* no request answered yet, or a request being served
NoResponse == [route |-> "none", called |-> FALSE, status |-> 0, body |-> None]

\* The requests on one book, one right after the other, none of them met by
\* a failure and no other request served meanwhile: create, update of the
\* year alone, delete, get.  Any other request starts over.
NoSequence == [stage |-> "none", id |-> 0, title |-> None]

\* the dependency raised: the framework answers 500
Unresolved(route) == Response(route, FALSE, HTTP_500_INTERNAL_SERVER_ERROR, None)

\* `if not book:` / `if not updated_book:` on an Optional[dict]
NotDict(v) == v = None

\* get_book / update_book of the router that answers 200 with a null body
\* for an absent record
respond_record_no404(route, res) ==
    IF res.kind = "raise"
    THEN Response(route, TRUE, HTTP_500_INTERNAL_SERVER_ERROR, None)
    ELSE Response(route, TRUE, HTTP_200_OK, res.val)

\* get_book / update_book of the router: 404 for an absent record, 500 for
\* any exception of the adapter, else 200 and the record
respond_record(route, res) ==
    IF res.kind = "raise"
    THEN Response(route, TRUE, HTTP_500_INTERNAL_SERVER_ERROR, None)
    ELSE IF NotDict(res.val)
    THEN Response(route, TRUE, HTTP_404_NOT_FOUND, None)
    ELSE Response(route, TRUE, HTTP_200_OK, res.val)

\* create_book of the router
respond_created(route, res) ==
    IF res.kind = "raise"
    THEN Response(route, TRUE, HTTP_500_INTERNAL_SERVER_ERROR, None)
    ELSE Response(route, TRUE, HTTP_201_CREATED, res.val)

\* delete_book of the router: `if not deleted:` is 404, else 204 and no body
respond_deleted(route, res) ==
    IF res.kind = "raise"
    THEN Response(route, TRUE, HTTP_500_INTERNAL_SERVER_ERROR, None)
    ELSE IF ~res.val
    THEN Response(route, TRUE, HTTP_404_NOT_FOUND, None)
    ELSE Response(route, TRUE, HTTP_204_NO_CONTENT, None)

\* get_books / search_books of the router: 500 for any exception of the
\* adapter, else 200 and the list
respond_list(route, res) ==
    IF res.kind = "raise"
    THEN Response(route, TRUE, HTTP_500_INTERNAL_SERVER_ERROR, None)
    ELSE Response(route, TRUE, HTTP_200_OK, res.val)

\* health_check of app/main.py: 503 where get_db_adapter or health_check
\* raised, else 200 around whatever record health_check returned
respond_health(resolved, res) ==
    IF ~resolved \/ res.kind = "raise"
    THEN Response("GET /health", resolved, HTTP_503_SERVICE_UNAVAILABLE,
                  Some([status |-> "unhealthy"]))
    ELSE Response("GET /health", TRUE, HTTP_200_OK,
                  Some([status |-> "healthy", database |-> res.val]))

\* what the handler of the route answers when the adapter operation it
\* awaited has returned or raised
respond(route, res) ==
    CASE route = "POST /books/" -> respond_created(route, res)
      [] route \in {"GET /books/{id}", "PUT /books/{id}"} -> respond_record(route, res)
      [] route = "DELETE /books/{id}" -> respond_deleted(route, res)
      [] route \in {"GET /books/", "GET /books/search"} -> respond_list(route, res)
      [] route = "GET /health" -> respond_health(TRUE, res)

---------------------------------------------------------------------------
(* The calls in flight.  The adapters are coroutines on one event loop: a   *)
(* task runs until it awaits, and the tasks of other requests run in        *)
(* between.  Every operation is                                             *)
(*     async with AsyncSessionLocal() as session:                           *)
(*         try: <body> except SQLAlchemyError: ...                          *)
(* Each await of a block is a step: the execute of a statement, the        *)
(* commit, the refresh of create_book, the rollback of a handler, and the   *)
(* get_book that update_book awaits inside its own block.  Between the      *)
(* execute of an UPDATE or DELETE and the end of its transaction the row it *)
(* matched is locked by the database and the change is not visible to the   *)
(* other sessions, which read the committed rows.                           *)

\* the tasks that serve requests at the same time
NTasks == 2

Tasks == 1..NTasks

AdapterOps == {"create_book", "get_book", "get_books", "update_book",
               "delete_book", "search_books", "health_check"}

\* a call in flight: the operation, its arguments, the route whose handler
\* awaits it ("none" for another caller), the rows stored when the call was
\* made, where the call is, its session, whether its statement matched a
\* row, whether its transaction holds the lock of that row, and its outcome
Frame(op, k, title, author, year, skip, limit, route) ==
    [op |-> op, id |-> k, title |-> title, author |-> author, year |-> year,
     skip |-> skip, limit |-> limit, route |-> route, before |-> table,
     pc |-> "enter", sess |-> 0, matched |-> FALSE, locked |-> FALSE,
     res |-> Pending]

Top(w) == calls[w][Len(calls[w])]

\* the calls of task w with the innermost replaced by f
WithTop(w, f) == [calls[w] EXCEPT ![Len(calls[w])] = f]

\* the create_book calls in flight that have not called uuid4() yet
ToDraw ==
    Cardinality({u \in Tasks :
                    /\ calls[u] # <<>>
                    /\ calls[u][1].op = "create_book"
                    /\ calls[u][1].pc \in {"resolve", "enter", "body"}})

\* a caller awaits an adapter operation
Await(w, f) ==
    /\ serving
    /\ calls[w] = <<>>
    /\ calls' = [calls EXCEPT ![w] = <<f>>]
    /\ out' = NoCall
    /\ UNCHANGED <<open, reqVars, envVars, table, nextUuid, clock, regVars, raceVars>>

CreateBook(w, title, author, year) ==
    /\ nextUuid + ToDraw <= MaxUuid
    /\ Await(w, Frame("create_book", 0, Some(title), Some(author), Some(year),
                      0, 0, "none"))

GetBook(w, k) ==
    Await(w, Frame("get_book", k, None, None, None, 0, 0, "none"))

UpdateBook(w, k, title, author, year) ==
    Await(w, Frame("update_book", k, title, author, year, 0, 0, "none"))

DeleteBook(w, k) ==
    Await(w, Frame("delete_book", k, None, None, None, 0, 0, "none"))

HealthCheck(w) ==
    Await(w, Frame("health_check", 0, None, None, None, 0, 0, "none"))

GetBooks(w, skip, limit) ==
    Await(w, Frame("get_books", 0, None, None, None, skip, limit, "none"))

SearchBooks(w, title, author, year) ==
    Await(w, Frame("search_books", 0, title, author, year, 0, 0, "none"))

\* a request arrives: get_db_adapter, a plain `def` dependency, is run on a
\* worker thread, which enters AdapterFactory.create(settings.DB_TYPE); the
\* handler waits for it
Request(w, f) ==
    /\ serving
    /\ calls[w] = <<>>
    /\ Enter(w, dbType)
    /\ calls' = [calls EXCEPT ![w] = <<[f EXCEPT !.pc = "resolve"]>>]
    /\ out' = NoCall
    /\ resp' = NoResponse
    /\ UNCHANGED <<e2e, open, envVars, table, nextUuid, clock>>

\* what the request of the route is answered where get_db_adapter raised:
\* GET /health calls it inside the try block of its handler
UnresolvedOf(route) ==
    IF route = "GET /health" THEN respond_health(FALSE, Returned(None))
    ELSE Unresolved(route)

\* create has returned or raised on the thread: the handler awaits the
\* adapter operation, or the request is answered at once
Resolved(w) ==
    /\ calls[w] # <<>>
    /\ Top(w).pc = "resolve"
    /\ pc[w] = "done"
    /\ IF tret[w].exc # "None"
       THEN /\ resp' = UnresolvedOf(Top(w).route)
            /\ e2e' = NoSequence
            /\ calls' = [calls EXCEPT ![w] = <<>>]
       ELSE /\ calls' = [calls EXCEPT ![w] =
                            WithTop(w, [Top(w) EXCEPT !.pc = "enter",
                                                      !.before = table])]
            /\ UNCHANGED <<resp, e2e>>
    /\ pc' = [pc EXCEPT ![w] = "idle"]
    /\ tname' = [tname EXCEPT ![w] = "None"]
    /\ tcls' = [tcls EXCEPT ![w] = "None"]
    /\ tinst' = [tinst EXCEPT ![w] = NoInstance]
    /\ tret' = [tret EXCEPT ![w] = NoResult]
    /\ UNCHANGED <<registry, instances, nextId, last, ctorLog, open, envVars,
                   table, nextUuid, clock, out>>

\* POST /books/
PostBook(w, title, author, year) ==
    /\ nextUuid + ToDraw <= MaxUuid
    /\ Request(w, Frame("create_book", 0, Some(title), Some(author), Some(year),
                        0, 0, "POST /books/"))

\* GET /books/{book_id}
GetBookById(w, k) ==
    Request(w, Frame("get_book", k, None, None, None, 0, 0, "GET /books/{id}"))

\* PUT /books/{book_id}
PutBook(w, k, title, author, year) ==
    Request(w, Frame("update_book", k, title, author, year, 0, 0, "PUT /books/{id}"))

\* DELETE /books/{book_id}
DeleteBookById(w, k) ==
    Request(w, Frame("delete_book", k, None, None, None, 0, 0, "DELETE /books/{id}"))

\* GET /books/?skip=&limit=
GetBooksPage(w, skip, limit) ==
    Request(w, Frame("get_books", 0, None, None, None, skip, limit, "GET /books/"))

\* GET /books/search?title=&author=&year=
GetBooksSearch(w, title, author, year) ==
    Request(w, Frame("search_books", 0, title, author, year, 0, 0,
                     "GET /books/search"))

\* GET /health: the handler calls get_db_adapter() itself, inside its try
\* block, on the thread of the event loop, beside the worker threads
GetHealth(w) ==
    Request(w, Frame("health_check", 0, None, None, None, 0, 0, "GET /health"))

\* AsyncSessionLocal() and __aenter__: a session of its own for the call,
\* named by the task and the depth of the call; TypeError where
\* AsyncSessionLocal is None
AcquireSession(w) ==
    /\ calls[w] # <<>>
    /\ Top(w).pc = "enter"
    /\ IF HasSessionFactory(dbType, mysqlUri)
       THEN /\ open' = open \cup {<<w, Len(calls[w])>>}
            /\ calls' = [calls EXCEPT ![w] =
                            WithTop(w, [Top(w) EXCEPT !.pc = "body",
                                                      !.sess = Len(calls[w])])]
       ELSE /\ open' = open
            /\ calls' = [calls EXCEPT ![w] =
                            WithTop(w, [Top(w) EXCEPT !.pc = "done",
                                                      !.res = NoFactory])]
    /\ UNCHANGED <<reqVars, envVars, table, nextUuid, clock, out, regVars, raceVars>>

\* UPDATE and DELETE: `await session.execute(stmt)` and then
\* `await session.commit()`, an await each
TwoAwaits(f) ==
    \/ f.op = "delete_book"
    \/ /\ f.op = "update_book"
       /\ ~(f.title = None /\ f.author = None /\ f.year = None)

\* the await of the try block at which the database may fail, for the calls
\* that have one: the commit of create_book, the execute of the reading
\* calls; update_book with no value given awaits nothing before get_book
BodyFaults(f) ==
    CASE f.op = "create_book" -> FaultsAt({"commit"})
      [] f.op = "update_book" -> {NoFault}
      [] OTHER -> FaultsAt({"execute"})

\* where the call goes when an await of its try block has given res:
\* `except SQLAlchemyError` of create_book, update_book and delete_book
\* awaits session.rollback() before it raises; the handlers of the reading
\* calls raise at once, and another exception meets no handler
After(f, res) ==
    IF /\ f.op \in {"create_book", "update_book", "delete_book"}
       /\ res.kind = "raise"
       /\ res.exc = "Exception"
    THEN "rollback"
    ELSE "exit"

\* a row with the id is locked by the transaction of another call
LockedByOther(w, k) ==
    \E u \in Tasks \ {w} :
       \E i \in DOMAIN calls[u] : calls[u][i].locked /\ calls[u][i].id = k

\* what the try block of call f does from its commit (its execute, for a
\* reading call) to its return, its refresh, its await of get_book or the
\* handler of its exception, on the rows tbl: the table and the uuid counter
\* it leaves, the call as it is then, and whether it goes on to get_book
try_block(f, tbl, fault) ==
    CASE f.op = "create_book" ->
            LET r == create_book(dbType, tbl, nextUuid, clock,
                                 f.title[1], f.author[1], f.year[1], fault)
            IN  {[table |-> r.table, uuid |-> nextUuid + 1, get |-> FALSE,
                  top |-> IF r.res = Pending
                          THEN [f EXCEPT !.id = nextUuid, !.pc = "refresh"]
                          ELSE [f EXCEPT !.id = nextUuid, !.pc = After(f, r.res),
                                         !.res = r.res]]}
      [] f.op = "get_book" ->
            {[table |-> tbl, uuid |-> nextUuid, get |-> FALSE,
              top |-> [f EXCEPT !.pc = "exit",
                                !.res = get_book(dbType, mysqlUri, tbl, f.id,
                                                 fault)]]}
      [] f.op = "update_book" ->
            LET r == update_book(dbType, tbl, f.id, f.title, f.author, f.year,
                                 fault)
            IN  {[table |-> r.table, uuid |-> nextUuid, get |-> r.get,
                  top |-> IF r.get
                          THEN [f EXCEPT !.pc = "await_get", !.matched = f.matched \/ r.matched,
                                         !.locked = FALSE]
                          ELSE [f EXCEPT !.pc = After(f, r.res),
                                         !.matched = f.matched \/ r.matched,
                                         !.locked = f.locked /\ r.res.kind = "raise",
                                         !.res = r.res]]}
      [] f.op = "delete_book" ->
            LET r == delete_book(dbType, mysqlUri, tbl, f.id, fault)
            IN  {[table |-> r.table, uuid |-> nextUuid, get |-> FALSE,
                  top |-> [f EXCEPT !.pc = After(f, r.res),
                                    !.locked = f.locked /\ r.res.kind = "raise",
                                    !.res = r.res]]}
      [] f.op = "health_check" ->
            {[table |-> tbl, uuid |-> nextUuid, get |-> FALSE,
              top |-> [f EXCEPT !.pc = "exit",
                                !.res = health_check(dbType, mysqlUri, fault)]]}
      [] f.op = "get_books" ->
            {[table |-> tbl, uuid |-> nextUuid, get |-> FALSE,
              top |-> [f EXCEPT !.pc = "exit", !.res = res]] :
               res \in get_books(dbType, mysqlUri, tbl, f.skip, f.limit, fault)}
      [] f.op = "search_books" ->
            {[table |-> tbl, uuid |-> nextUuid, get |-> FALSE,
              top |-> [f EXCEPT !.pc = "exit", !.res = res]] :
               res \in search_books(dbType, mysqlUri, collation, tbl,
                                    f.title, f.author, f.year, fault)}

\* the step of a try block with one await: the commit of create_book, the
\* execute of a reading call; update_book with no value goes to get_book
Body(w, fault) ==
    /\ calls[w] # <<>>
    /\ Top(w).pc = "body"
    /\ ~TwoAwaits(Top(w))
    /\ fault \in BodyFaults(Top(w))
    /\ \E s \in try_block(Top(w), table, fault) :
          /\ table' = s.table
          /\ nextUuid' = s.uuid
          /\ calls' = [calls EXCEPT ![w] =
                          IF s.get
                          THEN Append(WithTop(w, s.top),
                                      Frame("get_book", s.top.id, None, None, None,
                                            0, 0, "none"))
                          ELSE WithTop(w, s.top)]
    /\ UNCHANGED <<open, reqVars, envVars, clock, out, regVars, raceVars>>

\* `result = await session.execute(stmt)` of update_book and delete_book:
\* the statement waits while another transaction holds the row; it finds
\* the row or not (rowcount, the row of RETURNING) and holds it from then
\* on; the change is not committed yet
Execute(w, fault) ==
    /\ calls[w] # <<>>
    /\ Top(w).pc = "body"
    /\ TwoAwaits(Top(w))
    /\ fault \in FaultsAt({"execute"})
    /\ LET f == Top(w)
           hit == \E r \in table : r.id = StoredId(dbType, f.id)
           res == Handled(dbType, fault.exc)
       IN  IF fault = NoFault
           THEN /\ ~LockedByOther(w, f.id)
                /\ calls' = [calls EXCEPT ![w] =
                                WithTop(w, [f EXCEPT !.pc = "commit",
                                                     !.matched = hit,
                                                     !.locked = hit])]
           ELSE calls' = [calls EXCEPT ![w] =
                             WithTop(w, [f EXCEPT !.pc = After(f, res),
                                                  !.res = res])]
    /\ UNCHANGED <<open, reqVars, envVars, table, nextUuid, clock, out, regVars,
                   raceVars>>

\* the rows the statement of call f works on: a row stored after the
\* statement found none with the id is not among them
Found(f) ==
    IF f.matched THEN table
    ELSE {r \in table : r.id # StoredId(dbType, f.id)}

\* `await session.commit()` of update_book and delete_book, and what follows
\* it up to the return or the await of get_book: the change of the
\* statement is stored and the row released
Commit(w, fault) ==
    /\ calls[w] # <<>>
    /\ Top(w).pc = "commit"
    /\ fault \in FaultsAt({"commit"})
    /\ \E s \in try_block(Top(w), Found(Top(w)), fault) :
          /\ table' = s.table \cup (table \ Found(Top(w)))
          /\ calls' = [calls EXCEPT ![w] =
                          IF s.get
                          THEN Append(WithTop(w, s.top),
                                      Frame("get_book", s.top.id, None, None, None,
                                            0, 0, "none"))
                          ELSE WithTop(w, s.top)]
    /\ UNCHANGED <<open, reqVars, envVars, nextUuid, clock, out, regVars, raceVars>>

\* `await session.refresh(book)` of create_book and its return, or the
\* handler of its exception
Refresh(w, fault) ==
    /\ calls[w] # <<>>
    /\ Top(w).pc = "refresh"
    /\ LET f == Top(w)
           book == Unrefreshed(dbType, f.id, f.title[1], f.author[1], f.year[1])
           res == refresh(dbType, table, book, fault)
       IN  calls' = [calls EXCEPT ![w] =
                        WithTop(w, [f EXCEPT !.pc = After(f, res), !.res = res])]
    /\ UNCHANGED <<open, reqVars, envVars, table, nextUuid, clock, out, regVars, raceVars>>

\* `await session.rollback()` and the raise of the handler: what the
\* transaction held is released; where the rollback itself fails its
\* exception leaves the call as it is
Rollback(w, fault) ==
    /\ calls[w] # <<>>
    /\ Top(w).pc = "rollback"
    /\ fault \in FaultsAt({"rollback"})
    /\ calls' = [calls EXCEPT ![w] =
                    WithTop(w, [Top(w) EXCEPT
                                   !.pc = "exit",
                                   !.locked = FALSE,
                                   !.res = IF fault = NoFault THEN @
                                           ELSE Raw(fault.exc)])]
    /\ UNCHANGED <<open, reqVars, envVars, table, nextUuid, clock, out, regVars,
                   raceVars>>

\* `return await self.get_book(book_id)`: the value or the exception of
\* get_book, which is no SQLAlchemyError, leaves update_book as it is
Resume(w) ==
    /\ Len(calls[w]) >= 2
    /\ Top(w).pc = "done"
    /\ calls' = [calls EXCEPT ![w] =
                    [SubSeq(calls[w], 1, Len(calls[w]) - 1)
                        EXCEPT ![Len(calls[w]) - 1].pc = "exit",
                               ![Len(calls[w]) - 1].res = Top(w).res]]
    /\ UNCHANGED <<open, reqVars, envVars, table, nextUuid, clock, out, regVars, raceVars>>

\* a block that closes the session on return only
ExitSessionOnReturn(w) ==
    /\ calls[w] # <<>>
    /\ Top(w).pc = "exit"
    /\ open' = IF Top(w).res.kind = "return" THEN open \ {<<w, Top(w).sess>>}
               ELSE open
    /\ calls' = [calls EXCEPT ![w] =
                    WithTop(w, [Top(w) EXCEPT !.pc = "done", !.locked = FALSE])]
    /\ UNCHANGED <<reqVars, envVars, table, nextUuid, clock, out, regVars, raceVars>>

\* __aexit__ of `async with`: the session is closed, on return and on raise,
\* and with it a transaction left open
ExitSession(w) ==
    /\ calls[w] # <<>>
    /\ Top(w).pc = "exit"
    /\ open' = open \ {<<w, Top(w).sess>>}
    /\ calls' = [calls EXCEPT ![w] =
                    WithTop(w, [Top(w) EXCEPT !.pc = "done", !.locked = FALSE])]
    /\ UNCHANGED <<reqVars, envVars, table, nextUuid, clock, out, regVars, raceVars>>

\* how far the requests have followed the sequence when the handler of call
\* f answers
Follows(w, f) ==
    IF \E u \in Tasks \ {w} : calls[u] # <<>> THEN NoSequence
    ELSE IF f.route = "POST /books/" /\ f.res.kind = "return"
    THEN [stage |-> "created", id |-> f.id, title |-> f.title]
    ELSE IF f.id # e2e.id \/ f.res.kind = "raise" THEN NoSequence
    ELSE IF /\ e2e.stage = "created" /\ f.route = "PUT /books/{id}"
            /\ f.title = None /\ f.author = None /\ f.year # None
    THEN [e2e EXCEPT !.stage = "updated"]
    ELSE IF e2e.stage = "updated" /\ f.route = "DELETE /books/{id}"
    THEN [e2e EXCEPT !.stage = "deleted"]
    ELSE IF e2e.stage = "deleted" /\ f.route = "GET /books/{id}"
    THEN [e2e EXCEPT !.stage = "got"]
    ELSE NoSequence

\* the operation returns or raises to its caller; a handler that awaited it
\* answers its request
Finish(w) ==
    /\ Len(calls[w]) = 1
    /\ Top(w).pc = "done"
    /\ LET f == Top(w)
       IN  /\ out' = IF f.op = "get_books" THEN DoneList(f.skip, f.limit, f.res)
                     ELSE Done(f.op, f.id, f.title, f.author, f.year, f.res)
           /\ IF f.route = "none"
              THEN UNCHANGED <<resp, e2e>>
              ELSE /\ resp' = respond(f.route, f.res)
                   /\ e2e' = Follows(w, f)
    /\ calls' = [calls EXCEPT ![w] = <<>>]
    /\ UNCHANGED <<open, envVars, table, nextUuid, clock, regVars, raceVars>>

\* time passes on the database server
Tick ==
    /\ serving
    /\ clock < MaxClock
    /\ clock' = clock + 1
    /\ UNCHANGED <<envVars, sessVars, reqVars, table, nextUuid, out, regVars, raceVars>>

NoSessions ==
    /\ calls = [w \in Tasks |-> <<>>]
    /\ open = {}

\* no request served yet
NoRequests ==
    /\ resp = NoResponse
    /\ e2e = NoSequence

\* the environment the process starts in; the MySQL URI is read only by the
\* MySQL session module, so it is varied where MySQL is selected
StoreInit ==
    /\ dbType \in DbTypes
    /\ pgUri \in BOOLEAN
    /\ mysqlUri \in (IF dbType = "mysql" THEN BOOLEAN ELSE {FALSE})
    /\ collation = "ci"
    /\ serving = startup(dbType, pgUri, mysqlUri)
    /\ table = {}
    /\ nextUuid = 1
    /\ clock = 0
    /\ out = NoCall
    /\ NoSessions
    /\ NoRequests

\* the backend state in the specifications of the registry
StoreIdle ==
    /\ dbType = "postgres"
    /\ pgUri = TRUE
    /\ mysqlUri = FALSE
    /\ collation = "ci"
    /\ serving = startup(dbType, pgUri, mysqlUri)
    /\ table = {}
    /\ nextUuid = 1
    /\ clock = 0
    /\ out = NoCall
    /\ NoSessions
    /\ NoRequests

---------------------------------------------------------------------------
(* Specifications.                                                          *)

Init == RegInit /\ RaceInit /\ StoreIdle

Register(n, c) == register(n, c) /\ UNCHANGED <<raceVars, storeVars>>
Unregister(n) == unregister(n) /\ UNCHANGED <<raceVars, storeVars>>
Create(n) == create(n) /\ UNCHANGED <<raceVars, storeVars>>
GetRegisteredAdapters == get_registered_adapters /\ UNCHANGED <<raceVars, storeVars>>
Reset == reset /\ UNCHANGED <<raceVars, storeVars>>
ClearRegistry == clear_registry /\ UNCHANGED <<raceVars, storeVars>>

Next ==
    \/ \E n \in RegisterNames, c \in AdapterClasses : Register(n, c)
    \/ \E n \in Names : Unregister(n)
    \/ \E n \in Names : Create(n)
    \/ GetRegisteredAdapters
    \/ Reset
    \/ ClearRegistry

Spec == Init /\ [][Next]_vars

NextRace ==
    \/ \E t \in Threads, n \in Names : Enter(t, n) /\ UNCHANGED storeVars
    \/ \E t \in Threads : L78(t) /\ UNCHANGED storeVars
    \/ \E t \in Threads : L79(t) /\ UNCHANGED storeVars
    \/ \E t \in Threads : L82(t) /\ UNCHANGED storeVars
    \/ \E t \in Threads : L89(t) /\ UNCHANGED storeVars
    \/ \E t \in Threads : L90(t) /\ UNCHANGED storeVars
    \/ \E t \in Threads : L91(t) /\ UNCHANGED storeVars
    \/ \E t \in Threads : L93(t) /\ UNCHANGED storeVars

SpecRace == Init /\ [][NextRace]_vars

\* threads calling create, unregister, reset and clear_registry at the same
\* time, call after call
NextShared ==
    \/ \E t \in Threads, n \in Names : Enter(t, n) /\ UNCHANGED storeVars
    \/ \E t \in Threads : L78(t) /\ UNCHANGED storeVars
    \/ \E t \in Threads : L79(t) /\ UNCHANGED storeVars
    \/ \E t \in Threads : L82(t) /\ UNCHANGED storeVars
    \/ \E t \in Threads : L89(t) /\ UNCHANGED storeVars
    \/ \E t \in Threads : L90(t) /\ UNCHANGED storeVars
    \/ \E t \in Threads : L91(t) /\ UNCHANGED storeVars
    \/ \E t \in Threads : L93(t) /\ UNCHANGED storeVars
    \/ \E t \in Threads, n \in Names : EnterUnregister(t, n) /\ UNCHANGED storeVars
    \/ \E t \in Threads : L55(t) /\ UNCHANGED storeVars
    \/ \E t \in Threads : L56(t) /\ UNCHANGED storeVars
    \/ \E t \in Threads : L57(t) /\ UNCHANGED storeVars
    \/ \E t \in Threads : L58(t) /\ UNCHANGED storeVars
    \/ \E t \in Threads : EnterReset(t) /\ UNCHANGED storeVars
    \/ \E t \in Threads : L113(t) /\ UNCHANGED storeVars
    \/ \E t \in Threads : EnterClearRegistry(t) /\ UNCHANGED storeVars
    \/ \E t \in Threads : L123(t) /\ UNCHANGED storeVars
    \/ \E t \in Threads : L124(t) /\ UNCHANGED storeVars
    \/ \E t \in Threads : Again(t) /\ UNCHANGED storeVars

SpecShared == Init /\ [][NextShared]_vars

\* ids a caller may ask for: an id uuid4() has not yet yielded is one that
\* was never created
Ids == 1..MaxUuid

\* one caller, one call after the other, on either backend
NextStore ==
    \/ \E t \in Titles, a \in Authors, y \in Years : CreateBook(1, t, a, y)
    \/ \E k \in Ids : GetBook(1, k)
    \/ \E k \in Ids, t \in Optional(Titles), a \in Optional(Authors),
          y \in Optional(Years) : UpdateBook(1, k, t, a, y)
    \/ \E k \in Ids : DeleteBook(1, k)
    \/ HealthCheck(1)
    \/ AcquireSession(1)
    \/ \E f \in FaultsAt({"execute", "commit"}) : Body(1, f)
    \/ \E f \in FaultsAt({"execute"}) : Execute(1, f)
    \/ \E f \in FaultsAt({"commit"}) : Commit(1, f)
    \/ \E f \in FaultsAt({"refresh"}) : Refresh(1, f)
    \/ \E f \in FaultsAt({"rollback"}) : Rollback(1, f)
    \/ Resume(1)
    \/ ExitSession(1)
    \/ Finish(1)
    \/ Tick

InitStore == RegInit /\ RaceInit /\ StoreInit

SpecStore == InitStore /\ [][NextStore]_vars

\* the text a caller may filter on: the empty string, and parts of the stored
\* titles and authors in another case
TitleFilters == { <<>>, <<"d", "u">> }
AuthorFilters == { <<"E", "R">> }

\* skip and limit of get_books
Pages == 0..MaxUuid

\* a process that serves, over a table whose text columns have either
\* collation where the backend's filter is LIKE
QueryInit ==
    /\ dbType \in DbTypes
    /\ pgUri = TRUE
    /\ mysqlUri = (dbType = "mysql")
    /\ collation \in (IF dbType = "mysql" THEN Collations ELSE {"ci"})
    /\ serving = startup(dbType, pgUri, mysqlUri)
    /\ table = {}
    /\ nextUuid = 1
    /\ clock = 0
    /\ out = NoCall
    /\ NoSessions
    /\ NoRequests

\* one caller that also lists and searches; the database fails at the
\* execute of a statement only
NextQuery ==
    \/ \E t \in Titles, a \in Authors, y \in Years : CreateBook(1, t, a, y)
    \/ \E k \in Ids : GetBook(1, k)
    \/ \E k \in Ids, t \in Optional(Titles), a \in Optional(Authors),
          y \in Optional(Years) : UpdateBook(1, k, t, a, y)
    \/ \E k \in Ids : DeleteBook(1, k)
    \/ \E skip \in Pages, limit \in Pages : GetBooks(1, skip, limit)
    \/ \E t \in Optional(TitleFilters), a \in Optional(AuthorFilters),
          y \in Optional(Years) : SearchBooks(1, t, a, y)
    \/ AcquireSession(1)
    \/ \E f \in FaultsAt({"execute"}) : Body(1, f)
    \/ \E f \in FaultsAt({"execute"}) : Execute(1, f)
    \/ Commit(1, NoFault)
    \/ Refresh(1, NoFault)
    \/ Rollback(1, NoFault)
    \/ Resume(1)
    \/ ExitSession(1)
    \/ Finish(1)
    \/ Tick

InitQuery == RegInit /\ RaceInit /\ QueryInit

SpecQuery == InitQuery /\ [][NextQuery]_vars

\* every operation of the adapter, with one choice of arguments each but for
\* update_book, from one caller
NextSession ==
    \/ CreateBook(1, <<"W", "a", "r">>, <<"H", "e", "r", "b", "e", "r", "t">>, 0)
    \/ GetBook(1, 1)
    \/ \E y \in Optional(Years) : UpdateBook(1, 1, None, None, y)
    \/ DeleteBook(1, 1)
    \/ HealthCheck(1)
    \/ GetBooks(1, 0, 1)
    \/ SearchBooks(1, None, None, None)
    \/ AcquireSession(1)
    \/ \E f \in FaultsAt({"execute", "commit"}) : Body(1, f)
    \/ \E f \in FaultsAt({"execute"}) : Execute(1, f)
    \/ \E f \in FaultsAt({"commit"}) : Commit(1, f)
    \/ \E f \in FaultsAt({"refresh"}) : Refresh(1, f)
    \/ \E f \in FaultsAt({"rollback"}) : Rollback(1, f)
    \/ Resume(1)
    \/ ExitSession(1)
    \/ Finish(1)

InitSession == RegInit /\ RaceInit /\ StoreInit

SpecSession == InitSession /\ [][NextSession]_vars

\* the process serves, within one tick of the database clock
HttpInit ==
    /\ dbType \in DbTypes
    /\ pgUri = TRUE
    /\ mysqlUri \in (IF dbType = "mysql" THEN BOOLEAN ELSE {FALSE})
    /\ collation = "ci"
    /\ serving = startup(dbType, pgUri, mysqlUri)
    /\ table = {}
    /\ nextUuid = 1
    /\ clock = 0
    /\ out = NoCall
    /\ NoSessions
    /\ NoRequests

\* the limits GET /books/ accepts (limit: int = Query(100, ge=1, le=1000))
Limits == 1..MaxUuid

\* the requests of the routes, served one at a time (requests that overlap
\* are those of SpecTasks)
NextHttp ==
    \/ \E t \in Titles, a \in Authors, y \in Years : PostBook(1, t, a, y)
    \/ \E k \in Ids : GetBookById(1, k)
    \/ \E k \in Ids, t \in Optional(Titles), a \in Optional(Authors),
          y \in Optional(Years) : PutBook(1, k, t, a, y)
    \/ \E k \in Ids : DeleteBookById(1, k)
    \/ \E skip \in Pages, limit \in Limits : GetBooksPage(1, skip, limit)
    \/ \E t \in Optional(TitleFilters), y \in Optional(Years) :
          GetBooksSearch(1, t, None, y)
    \/ GetHealth(1)
    \/ L78(1) /\ UNCHANGED storeVars
    \/ L79(1) /\ UNCHANGED storeVars
    \/ L82(1) /\ UNCHANGED storeVars
    \/ L89(1) /\ UNCHANGED storeVars
    \/ L90(1) /\ UNCHANGED storeVars
    \/ L91(1) /\ UNCHANGED storeVars
    \/ L93(1) /\ UNCHANGED storeVars
    \/ Resolved(1)
    \/ AcquireSession(1)
    \/ \E f \in FaultsAt({"execute", "commit"}) : Body(1, f)
    \/ \E f \in FaultsAt({"execute"}) : Execute(1, f)
    \/ \E f \in FaultsAt({"commit"}) : Commit(1, f)
    \/ \E f \in FaultsAt({"refresh"}) : Refresh(1, f)
    \/ Rollback(1, NoFault)
    \/ Resume(1)
    \/ ExitSession(1)
    \/ Finish(1)

InitHttp == RegInit /\ RaceInit /\ HttpInit

SpecHttp == InitHttp /\ [][NextHttp]_vars

\* the process serves and both connection strings are set
TasksInit ==
    /\ dbType \in DbTypes
    /\ pgUri = TRUE
    /\ mysqlUri = TRUE
    /\ collation = "ci"
    /\ serving = startup(dbType, pgUri, mysqlUri)
    /\ table = {}
    /\ nextUuid = 1
    /\ clock = 0
    /\ out = NoCall
    /\ NoSessions
    /\ NoRequests

\* requests served at the same time: one client creates books and sets the
\* year of the first, another sets its title, reads it and deletes it
NextTasks ==
    \/ PostBook(1, <<"D", "u", "n", "e">>, <<"H", "e", "r", "b", "e", "r", "t">>, 1965)
    \/ PutBook(1, 1, None, None, Some(0))
    \/ PutBook(2, 1, Some(<<"W", "a", "r">>), None, None)
    \/ GetBookById(2, 1)
    \/ DeleteBookById(2, 1)
    \/ \E w \in Tasks : L78(w) /\ UNCHANGED storeVars
    \/ \E w \in Tasks : L79(w) /\ UNCHANGED storeVars
    \/ \E w \in Tasks : L82(w) /\ UNCHANGED storeVars
    \/ \E w \in Tasks : L89(w) /\ UNCHANGED storeVars
    \/ \E w \in Tasks : L90(w) /\ UNCHANGED storeVars
    \/ \E w \in Tasks : L91(w) /\ UNCHANGED storeVars
    \/ \E w \in Tasks : L93(w) /\ UNCHANGED storeVars
    \/ \E w \in Tasks : Resolved(w)
    \/ \E w \in Tasks : AcquireSession(w)
    \/ \E w \in Tasks : Body(w, NoFault)
    \/ \E w \in Tasks : Execute(w, NoFault)
    \/ \E w \in Tasks : Commit(w, NoFault)
    \/ \E w \in Tasks : Refresh(w, NoFault)
    \/ \E w \in Tasks : Rollback(w, NoFault)
    \/ \E w \in Tasks : Resume(w)
    \/ \E w \in Tasks : ExitSession(w)
    \/ \E w \in Tasks : Finish(w)

InitTasks == RegInit /\ RaceInit /\ TasksInit

SpecTasks == InitTasks /\ [][NextTasks]_vars

---------------------------------------------------------------------------
(* Claims about the registry.                                               *)

\* what a step is: the call the step made is recorded in last'
IsCall(op) == last'.op = op
IsCallOn(op, n) == last'.op = op /\ last'.name = n

\* the constructor calls made so far for name n (SpecRace)
CtorCalls(n) == Cardinality({i \in 1..Len(ctorLog) : ctorLog[i] = n})

\* C1: callers that run create(name) for the same registered name at the same
\* time, with nothing cached, construct exactly one instance and all receive
\* that instance.
C1_OneInstanceUnderRace ==
    /\ \A n \in Names : CtorCalls(n) <= 1
    /\ \A t1, t2 \in Threads :
          ( /\ pc[t1] = "done" /\ pc[t2] = "done"
            /\ tname[t1] = tname[t2]
            /\ tret[t1].exc = "None" /\ tret[t2].exc = "None" )
          => tret[t1].obj = tret[t2].obj

\* C2: instances are created lazily, only by the first create(name); a cached
\* instance stays until reset, unregister(name) or clear_registry; and every
\* create(name) that finds one cached returns that very instance without
\* calling the constructor.
C2_LazySingleton ==
    /\ instances = <<>>
    /\ [][ /\ \A n \in Names :
                /\ (~DictHas(instances, n) /\ DictHas(instances', n))
                      => (IsCallOn("create", n) /\ last'.ctor)
                /\ ( DictHas(instances, n)
                     /\ (~DictHas(instances', n)
                         \/ DictGet(instances', n) # DictGet(instances, n)) )
                      => (IsCall("reset") \/ IsCall("clear_registry")
                          \/ IsCallOn("unregister", n))
                /\ (IsCallOn("create", n) /\ last'.exc = "None")
                      => /\ DictHas(instances', n)
                         /\ DictGet(instances', n) = last'.ret
                         /\ last'.ret # NoInstance
                         /\ DictHas(instances, n)
                               => /\ last'.ret = DictGet(instances, n)
                                  /\ ~last'.ctor
                                  /\ nextId' = nextId
                         /\ ~DictHas(instances, n)
                               => /\ last'.ctor
                                  /\ last'.ret.id = nextId
                                  /\ nextId' = nextId + 1
           /\ (~IsCall("create")) => nextId' = nextId
         ]_vars

\* a second create(name) returned the instance the first one cached
C2_Witness ==
    /\ last.op = "create" /\ last.exc = "None" /\ ~last.ctor
    /\ DictHas(instances, last.name)
    /\ DictGet(instances, last.name) = last.ret

\* C3: create(name) of a name that is not registered raises the
\* not-registered error, which lists exactly the registered names, and
\* changes neither the registry nor the cache.
C3_UnknownAdapter ==
    [][ \A n \in Names :
           (IsCallOn("create", n) /\ ~DictHas(registry, n))
              => /\ last'.exc = "ValueError: not registered"
                 /\ last'.avail = DictKeys(registry)
                 /\ Range(last'.avail) = {m \in Names : DictHas(registry, m)}
                 /\ last'.ret = NoInstance
                 /\ ~last'.ctor
                 /\ registry' = registry
                 /\ instances' = instances
      ]_vars

\* create("mysql") failed as unknown after mysql was unregistered, listing
\* the one name still registered
C3_Witness ==
    /\ last.op = "create" /\ last.name = "mysql"
    /\ last.exc = "ValueError: not registered"
    /\ last.avail = <<"postgres">>

\* C4: register(name, cls) of a registered name raises the already-registered
\* error and changes nothing (the class bound to name included); a name is
\* bound again only after unregister(name) or clear_registry removed it; and
\* get_registered_adapters lists exactly the registered names.
C4_DuplicateRegistration ==
    [][ /\ \A n \in Names :
             /\ (IsCallOn("register", n) /\ DictHas(registry, n))
                   => /\ last'.exc = "ValueError: already registered"
                      /\ registry' = registry
                      /\ instances' = instances
             /\ (DictHas(registry, n) /\ DictHas(registry', n))
                   => DictGet(registry', n) = DictGet(registry, n)
             /\ (DictHas(registry, n) /\ ~DictHas(registry', n))
                   => (IsCallOn("unregister", n) \/ IsCall("clear_registry"))
             /\ (~DictHas(registry, n) /\ DictHas(registry', n))
                   => (IsCallOn("register", n) /\ last'.exc = "None"
                       /\ DictGet(registry', n) = last'.cls)
        /\ IsCall("get_registered_adapters")
              => /\ Range(last'.listed) = {m \in Names : DictHas(registry, m)}
                 /\ Len(last'.listed) = Cardinality(Range(last'.listed))
      ]_vars

\* a register of a name that is bound was refused, the binding kept
C4_Witness ==
    /\ last.op = "register" /\ last.exc = "ValueError: already registered"
    /\ DictHas(registry, last.name)
    /\ DictGet(registry, last.name) # last.cls

\* C5: register refuses every class that does not provide the full operation
\* set of the capability interface, so every registered class provides it
\* and create can instantiate it.
C5_RegisteredSatisfyInterface ==
    \A i \in 1..Len(registry) :
        /\ AbstractOps \subseteq Implements(registry[i].val)
        /\ AbstractMethods(registry[i].val) = {}

\* C6: unregister(name) removes the registration and the cached instance of
\* name, changes nothing when name is absent, leaves every other name's
\* registration and instance as they were, and a create(name) that follows
\* fails as not registered.
C6_Unregister ==
    [][ \A n \in Names :
          /\ IsCallOn("unregister", n)
               => /\ ~DictHas(registry', n)
                  /\ ~DictHas(instances', n)
                  /\ last'.exc = "None"
                  /\ (~DictHas(registry, n) /\ ~DictHas(instances, n))
                        => (registry' = registry /\ instances' = instances)
                  /\ \A m \in Names \ {n} :
                        /\ DictHas(registry', m) <=> DictHas(registry, m)
                        /\ DictHas(registry, m)
                              => DictGet(registry', m) = DictGet(registry, m)
                        /\ DictHas(instances', m) <=> DictHas(instances, m)
                        /\ DictHas(instances, m)
                              => DictGet(instances', m) = DictGet(instances, m)
          /\ (last.op = "unregister" /\ last.name = n /\ IsCallOn("create", n))
               => last'.exc = "ValueError: not registered"
      ]_vars

\* unregister removed a name that had a cached instance while another name
\* kept its own
C6_Witness ==
    /\ last.op = "unregister" /\ last.name = "postgres"
    /\ ~DictHas(registry, "postgres") /\ ~DictHas(instances, "postgres")
    /\ DictHas(instances, "mysql") /\ DictHas(registry, "mysql")
    /\ nextId = 3

\* C7: reset empties the cache and keeps the registrations; the create of a
\* registered name that follows calls the constructor again and, for every
\* class that can be constructed, returns and caches an instance that did
\* not exist before the reset.
C7_Reset ==
    [][ /\ IsCall("reset")
             => (instances' = <<>> /\ registry' = registry /\ last'.exc = "None")
        /\ \A n \in Names :
             (last.op = "reset" /\ IsCallOn("create", n) /\ DictHas(registry, n))
               => /\ last'.ctor
                  /\ LET c == DictGet(registry, n)
                     IN  (AbstractMethods(c) = {} /\ ~InitRaises(c))
                            => last'.exc = "None"
                  /\ last'.exc = "None"
                        => /\ last'.ret.id >= nextId
                           /\ \A m \in Names :
                                 DictHas(instances, m)
                                    => DictGet(instances, m) # last'.ret
                           /\ DictHas(instances', n)
                           /\ DictGet(instances', n) = last'.ret
                           /\ last'.ret.cls = DictGet(registry, n)
      ]_vars

\* reset has emptied a cache that held two instances, both registrations kept
C7_Witness ==
    /\ last.op = "reset"
    /\ instances = <<>>
    /\ nextId = 3
    /\ registry = DefaultRegistry

\* C8: clear_registry empties the registrations and the cache; right after
\* it get_registered_adapters is empty and create of any name fails as not
\* registered.
C8_ClearRegistry ==
    [][ /\ IsCall("clear_registry")
             => (registry' = <<>> /\ instances' = <<>> /\ last'.exc = "None")
        /\ (last.op = "clear_registry" /\ IsCall("get_registered_adapters"))
             => last'.listed = <<>>
        /\ \A n \in Names :
             (last.op = "clear_registry" /\ IsCallOn("create", n))
               => /\ last'.exc = "ValueError: not registered"
                  /\ last'.avail = <<>>
                  /\ registry' = <<>> /\ instances' = <<>>
      ]_vars

\* create of a name failed right after clear_registry although an instance
\* of it had been constructed before
C8_Witness ==
    /\ last.op = "create" /\ last.name = "postgres"
    /\ last.exc = "ValueError: not registered"
    /\ last.avail = <<>>
    /\ nextId > 1
    /\ registry = <<>>

\* C26: every name that has a cached instance is registered, and the cached
\* instance is one of the class registered under the name now; create never
\* returns an instance for a name get_registered_adapters does not list.
C26_CachedAreRegistered ==
    /\ \A i \in 1..Len(instances) :
          /\ DictHas(registry, instances[i].key)
          /\ instances[i].val.cls = DictGet(registry, instances[i].key)
    /\ (last.op = "create" /\ last.exc = "None")
          => /\ last.ret # NoInstance
             /\ \E i \in 1..Len(DictKeys(registry)) :
                   DictKeys(registry)[i] = last.name
             /\ last.ret.cls = DictGet(registry, last.name)

\* "mysql" was unregistered, registered again with another class, and create
\* returned and cached an instance of that class
C26_Witness ==
    /\ last.op = "create" /\ last.name = "mysql" /\ last.exc = "None"
    /\ DictHas(registry, "mysql")
    /\ DictGet(registry, "mysql") = "PostgresAdapter"
    /\ DictHas(instances, "mysql")
    /\ DictGet(instances, "mysql").cls = "PostgresAdapter"

\* the failures of a constructor call
CtorErrors == {"TypeError: abstract class", "RuntimeError: __init__"}

\* C27: when the constructor of a registered name fails in create, the caller
\* gets that failure, nothing is cached for the name, the registry is as it
\* was, and the next create of the name calls the constructor again.
C27_ConstructorFailure ==
    [][ \A n \in Names :
          /\ (IsCallOn("create", n) /\ last'.exc \in CtorErrors)
                => /\ last'.ctor
                   /\ last'.ret = NoInstance
                   /\ registry' = registry
                   /\ instances' = instances
                   /\ ~DictHas(instances', n)
          /\ ( /\ last.op = "create" /\ last.name = n /\ last.exc \in CtorErrors
               /\ IsCallOn("create", n) )
                => /\ last'.ctor
                   /\ last'.exc \in CtorErrors
                   /\ last'.ret = NoInstance
          /\ ( /\ IsCallOn("create", n)
               /\ DictHas(registry, n) /\ ~DictHas(instances, n) )
                => last'.ctor
      ]_vars

\* create of a name whose class raises in __init__ failed, and the name has
\* no cached instance while another name has one
C27_Witness ==
    /\ last.op = "create" /\ last.ctor
    /\ last.exc = "RuntimeError: __init__"
    /\ DictHas(registry, last.name)
    /\ ~DictHas(instances, last.name)
    /\ instances # <<>>

---------------------------------------------------------------------------
(* Claims about the backends.                                               *)

\* C9: health_check never raises: whatever the state of the backend, the
\* call returns a status record, the failure described in it when unhealthy.
C9_HealthNeverRaises ==
    out.op = "health_check"
       => /\ out.res.kind = "return"
          /\ out.res.val.status \in {"healthy", "unhealthy"}
          /\ out.res.val.status = "unhealthy" => out.res.val.error # "None"

\* C10: when create_book, update_book or delete_book raises, the table is
\* what it was before the call.
C10_NoEffectOnError ==
    \A w \in Tasks :
       ( /\ calls[w] # <<>>
         /\ calls[w][1].op \in {"create_book", "update_book", "delete_book"}
         /\ calls[w][1].pc = "done"
         /\ calls[w][1].res.kind = "raise" )
       => table = calls[w][1].before

\* the step in which an adapter call returns or raises to its caller: its
\* arguments and its outcome are in out'
IsStoreCall(op) ==
    /\ \E w \in Tasks : calls[w] # <<>> /\ calls'[w] = <<>>
    /\ out'.op = op
Returns == out'.res.kind = "return"

\* the rows that were stored when the call that returns in this step was made
Before ==
    LET w == CHOOSE u \in Tasks : calls[u] # <<>> /\ calls'[u] = <<>>
    IN  calls[w][1].before

\* the step in which the try block of a call of the operation runs
Runs(op) ==
    \E w \in Tasks :
       /\ calls[w] # <<>>
       /\ Top(w).op = op
       /\ Top(w).pc = "body"
       /\ calls'[w] # calls[w]

\* the rows of the table with the id the caller knows as k
RowsOf(tbl, k) == {r \in tbl : r.id = StoredId(dbType, k)}

\* C11: update_book on an existing id sets exactly the fields it was given (a
\* year of 0 is a given year) and leaves the other fields, the id, created_on
\* and every other row as they were; given no field it changes nothing and
\* returns the current record; the record it returns is the stored one.
C11_PartialUpdate ==
    [][ \A k \in Ids :
          ( /\ IsStoreCall("update_book") /\ out'.id = k /\ Returns
            /\ RowsOf(Before, k) # {} )
          => LET old == CHOOSE r \in RowsOf(Before, k) : TRUE
             IN  /\ \E new \in RowsOf(table', k) :
                       /\ new.title = IF out'.title # None THEN out'.title[1]
                                      ELSE old.title
                       /\ new.author = IF out'.author # None THEN out'.author[1]
                                       ELSE old.author
                       /\ new.year = IF out'.year # None THEN out'.year[1]
                                     ELSE old.year
                       /\ new.created_on = old.created_on
                       /\ table' \ {new} = Before \ {old}
                       /\ out'.res.val = Some(book_to_dict(dbType, Book(new)))
                 /\ (out'.title = None /\ out'.author = None /\ out'.year = None)
                       => /\ table' = Before
                          /\ out'.res.val = Some(book_to_dict(dbType, Book(old)))
      ]_vars

\* update_book(year=0) alone returned the record, its year 0, while another
\* book was stored
C11_Witness ==
    /\ out.op = "update_book" /\ out.res.kind = "return"
    /\ out.title = None /\ out.author = None /\ out.year = Some(0)
    /\ out.res.val # None
    /\ out.res.val[1].year = 0
    /\ \E r \in RowsOf(table, out.id) : r.year = 0
    /\ \E r \in table : r.year = 1965

\* C12: create_book returns a record with a fresh id and created_on set, and
\* get_book of that id then returns an equal record; rows stay until updated
\* or deleted; get_book of an id never created or no longer stored returns
\* None, and of a stored id the stored record.
C12_CreateGetRoundTrip ==
    [][ /\ (IsStoreCall("create_book") /\ Returns)
             => LET v == out'.res.val
                IN  /\ v # None
                    /\ v[1].id = UuidStr(out'.id)
                    /\ \A r \in Before : book_to_dict(dbType, Book(r)).id # v[1].id
                    /\ v[1].created_on # None
                    /\ \E r \in RowsOf(table', out'.id) :
                          v[1].created_on = IsoFormat(r.created_on)
                    /\ out'.title = Some(v[1].title)
                    /\ out'.author = Some(v[1].author)
                    /\ out'.year = Some(v[1].year)
                    /\ get_book(dbType, mysqlUri, table', out'.id, NoFault)
                          = Returned(v)
        /\ \A k \in Ids :
             (IsStoreCall("get_book") /\ out'.id = k /\ Returns)
               => /\ table' = table
                  /\ IF RowsOf(table, k) = {}
                     THEN out'.res.val = None
                     ELSE \E r \in RowsOf(table, k) :
                             out'.res.val =
                                Some([id |-> UuidStr(k), title |-> r.title,
                                      author |-> r.author, year |-> r.year,
                                      created_on |-> IsoFormat(r.created_on)])
                  /\ k >= nextUuid => out'.res.val = None
      ]_vars

\* get_book returned the second book, created after the clock moved
C12_Witness ==
    /\ out.op = "get_book" /\ out.id = 2 /\ out.res.kind = "return"
    /\ out.res.val # None
    /\ out.res.val[1].id = UuidStr(2)
    /\ out.res.val[1].created_on = IsoFormat(1)

\* C13: delete_book returns True exactly when a row with the id was stored,
\* and removes that row and no other; a delete_book of the same id after it
\* returns False, and a get_book of it returns None.
C13_Delete ==
    [][ \A k \in Ids :
          (IsStoreCall("delete_book") /\ out'.id = k /\ Returns)
            => /\ out'.res.val = (RowsOf(Before, k) # {})
               /\ table' = Before \ RowsOf(Before, k)
               /\ RowsOf(table', k) = {}
               /\ delete_book(dbType, mysqlUri, table', k, NoFault).res
                     = Returned(FALSE)
               /\ get_book(dbType, mysqlUri, table', k, NoFault) = Returned(None)
      ]_vars

\* the second delete_book of a book returned False and the other book is
\* still stored
C13_Witness ==
    /\ out.op = "delete_book" /\ out.id = 1 /\ out.res.kind = "return"
    /\ out.res.val = FALSE
    /\ nextUuid > 2
    /\ RowsOf(table, 1) = {}
    /\ RowsOf(table, 2) # {}

\* the records of a result list
Records(v) == {v[i] : i \in DOMAIN v}

\* a result list is in creation-time-descending order
Descending(v) ==
    \A i, j \in DOMAIN v : i < j => v[i].created_on[2] >= v[j].created_on[2]

NoFilter == out'.title = None /\ out'.author = None /\ out'.year = None

\* C14: search_books returns exactly the stored records that satisfy every
\* filter it was given, the text filters as the backend matches text; a given
\* year, 0 included, keeps the records of exactly that year.
C14_SearchFilters ==
    [][ (IsStoreCall("search_books") /\ Returns)
          => Records(out'.res.val) =
                {book_to_dict(dbType, Book(r)) : r \in
                   {r \in table :
                      /\ out'.title # None
                            => TextMatch(dbType, collation, r.title, out'.title[1])
                      /\ out'.author # None
                            => TextMatch(dbType, collation, r.author, out'.author[1])
                      /\ out'.year # None => r.year = out'.year[1]}}
      ]_vars

\* C15 as stated: search_books with no filter returns the same list, in the
\* same order, as get_books(0, L) for any L not below the number of rows.
C15_SearchAllSameOrder ==
    [][ (IsStoreCall("search_books") /\ NoFilter /\ Returns)
          => \A L \in Pages :
                L >= Cardinality(table)
                   => \A l \in get_books(dbType, mysqlUri, table, 0, L, NoFault) :
                         out'.res = l
      ]_vars

\* C15, amended: search_books with no filter returns the same records as
\* get_books(0, L) for any L not below the number of rows, both lists in
\* creation-time-descending order; rows with equal created_on may come in a
\* different order in the two.
C15_SearchAllSameRecords ==
    [][ (IsStoreCall("search_books") /\ NoFilter /\ Returns)
          => /\ Descending(out'.res.val)
             /\ \A L \in Pages :
                   L >= Cardinality(table)
                      => \A l \in get_books(dbType, mysqlUri, table, 0, L, NoFault) :
                            /\ l.kind = "return"
                            /\ Records(l.val) = Records(out'.res.val)
                            /\ Len(l.val) = Len(out'.res.val)
                            /\ Descending(l.val)
      ]_vars

\* search_books() returned two books that have the same created_on, the one
\* created second first
C15_Witness ==
    /\ out.op = "search_books" /\ out.res.kind = "return"
    /\ out.title = None /\ out.author = None /\ out.year = None
    /\ Len(out.res.val) = 2
    /\ out.res.val[1].id = UuidStr(2)
    /\ out.res.val[1].created_on = out.res.val[2].created_on
    /\ Cardinality(table) = 2

\* C16: the title and author filters ignore case whatever the collation of
\* the columns: the MySQL backend returns the records the PostgreSQL backend
\* returns for the same rows and filters.
C16_CaseInsensitive ==
    [][ (IsStoreCall("search_books") /\ Returns)
          => Records(out'.res.val) =
                {book_to_dict(dbType, Book(r)) : r \in
                   search_where("postgres", collation, table,
                                out'.title, out'.author, out'.year)}
      ]_vars

\* the rows of the table that come before / not after time t in the
\* creation-time-descending sequence
Later(tbl, t) == Cardinality({r \in tbl : r.created_on > t})
NotEarlier(tbl, t) == Cardinality({r \in tbl : r.created_on >= t})

\* C17: get_books(skip, limit) returns the records at positions skip ..
\* skip+limit-1 of the stored rows in creation-time-descending order: at most
\* limit records, the most recent first, none when skip is not below the
\* number of rows.
C17_ListSlice ==
    [][ (IsStoreCall("get_books") /\ Returns)
          => LET v == out'.res.val
                 n == Cardinality(table)
                 skip == out'.skip
                 limit == out'.limit
             IN  /\ Len(v) = Min(limit, IF n > skip THEN n - skip ELSE 0)
                 /\ Len(v) <= limit
                 /\ skip >= n => v = <<>>
                 /\ Records(v) \subseteq {book_to_dict(dbType, Book(r)) : r \in table}
                 /\ \A i, j \in DOMAIN v : v[i].id = v[j].id => i = j
                 /\ Descending(v)
                 /\ \A i \in DOMAIN v :
                       /\ Later(table, v[i].created_on[2]) <= skip + i - 1
                       /\ NotEarlier(table, v[i].created_on[2]) >= skip + i
      ]_vars

\* get_books(1, 1) returned the older of two books
C17_Witness ==
    /\ out.op = "get_books" /\ out.res.kind = "return"
    /\ out.skip = 1 /\ out.limit = 1
    /\ Cardinality(table) = 2
    /\ Len(out.res.val) = 1
    /\ out.res.val[1].created_on = IsoFormat(0)
    /\ \E r \in table : r.created_on = 1

\* the calls in flight that are inside their `async with` block
Inside(w, i) ==
    calls[w][i].pc \in {"body", "commit", "refresh", "rollback", "await_get", "exit"}

\* C18: every session a call opens is closed before the call returns or
\* raises, whatever its outcome, so that no session is open while no call is
\* in flight; an open session is that of a call still inside its own block,
\* also while update_book awaits get_book, which opens and closes its own.
C18_SessionsReleased ==
    /\ \A s \in open :
          /\ s[2] \in DOMAIN calls[s[1]]
          /\ calls[s[1]][s[2]].sess = s[2]
          /\ Inside(s[1], s[2])
    /\ \A w \in Tasks :
          /\ calls[w] = <<>> => ~(\E s \in open : s[1] = w)
          /\ Cardinality({s \in open : s[1] = w}) <= Len(calls[w])
          /\ \A i \in DOMAIN calls[w] :
                /\ calls[w][i].pc = "done" => <<w, i>> \notin open
                /\ Inside(w, i) => (calls[w][i].sess = i /\ <<w, i>> \in open)

\* get_book, awaited by update_book, has raised and closed its session;
\* update_book is still inside its block with its own session, the only one
\* open
C18_Witness ==
    /\ Len(calls[1]) = 2
    /\ calls[1][1].op = "update_book" /\ calls[1][1].pc = "await_get"
    /\ calls[1][2].op = "get_book" /\ calls[1][2].pc = "done"
    /\ calls[1][2].res.kind = "raise"
    /\ calls[1][2].sess # 0
    /\ open = {<<1, calls[1][1].sess>>}

\* the connection string of the selected backend is set
SelectedUriSet == IF dbType = "mysql" THEN mysqlUri ELSE pgUri

\* C19: the process serves exactly when the connection string of the
\* selected backend is set, whatever the other one; no adapter call meets a
\* backend that has no session factory.
C19_StartupRequiresSelectedUri ==
    /\ serving <=> SelectedUriSet
    /\ out.res # NoFactory

BookOps == {"create_book", "get_book", "get_books", "update_book",
            "delete_book", "search_books"}

\* C20: whatever fails inside create_book, get_book, get_books, update_book,
\* delete_book or search_books, the caller gets the adapter's own error, with
\* the backend name and the message of the failure, never the failure as it
\* was raised; a record that is absent is not an error.
C20_FailuresWrapped ==
    /\ (out.op \in BookOps /\ out.res.kind = "raise")
          => /\ out.res.exc = "Exception"
             /\ out.res.prefix = ErrPrefix(dbType)
             /\ out.res.cause # "None"
    /\ (out.op = "get_book" /\ out.res.kind = "return" /\ RowsOf(table, out.id) = {})
          => out.res.val = None

\* C22: no two stored rows have the same id; a row gets its id and its
\* created_on from the create_book that stores it, and keeps both as long as
\* it is stored, whatever update_book, delete_book, get_books, get_book and
\* search_books are called.
C22_IdentityImmutable ==
    [][ /\ \A q1, q2 \in table' : q1.id = q2.id => q1 = q2
        /\ \A q \in table' :
              IF \E r \in table : r.id = q.id
              THEN \E r \in table : r.id = q.id /\ r.created_on = q.created_on
              ELSE /\ Runs("create_book")
                   /\ q.id = StoredId(dbType, nextUuid)
                   /\ q.created_on = clock
      ]_vars

\* update_book changed a book after the clock had moved on: the book has
\* the created_on of its creation, and the other book is stored as well
C22_Witness ==
    /\ out.op = "update_book" /\ out.res.kind = "return"
    /\ out.res.val # None
    /\ out.year # None
    /\ clock = 1
    /\ out.res.val[1].created_on = IsoFormat(0)
    /\ \E r \in RowsOf(table, out.id) : r.created_on = 0 /\ r.year = out.year[1]
    /\ Cardinality(table) = 2

\* the stored rows as backend b holds them, and as a caller reads them
KeyOf(r) == IF dbType = "mysql" THEN r.id[2] ELSE r.id
TableOf(b) == {[r EXCEPT !.id = StoredId(b, KeyOf(r))] : r \in table}
Stored(b, tbl) == {book_to_dict(b, Book(r)) : r \in tbl}

\* update_book and create_book from call to return with no failure and no
\* other task in between
UpdateAlone(b, tbl, k, title, author, year) ==
    LET u == update_book(b, tbl, k, title, author, year, NoFault)
    IN  [table |-> u.table,
         res |-> IF u.get THEN get_book(b, TRUE, u.table, k, NoFault) ELSE u.res]
CreateAlone(b, tbl, uuid, now, title, author, year) ==
    LET c == create_book(b, tbl, uuid, now, title, author, year, NoFault)
    IN  [table |-> c.table,
         res |-> refresh(b, c.table, Unrefreshed(b, uuid, title, author, year),
                         NoFault)]

\* C24: on the same stored records and with the same arguments, update_book
\* of the MySQL adapter (UPDATE, commit, get_book in a second session) and of
\* the PostgreSQL adapter (UPDATE ... RETURNING) return the same result and
\* leave the same records; create_book, delete_book and get_book do as well,
\* so the two stay side by side over any sequence of calls.
C24_UpdateEquivalent ==
    LET tm == TableOf("mysql")
        tp == TableOf("postgres")
    IN  /\ Stored("mysql", tm) = Stored("postgres", tp)
        /\ \A k \in Ids :
              /\ \A t \in Optional(Titles), a \in Optional(Authors),
                    y \in Optional(Years) :
                    LET um == UpdateAlone("mysql", tm, k, t, a, y)
                        up == UpdateAlone("postgres", tp, k, t, a, y)
                    IN  /\ um.res = up.res
                        /\ um.res.kind = "return"
                        /\ Stored("mysql", um.table) = Stored("postgres", up.table)
              /\ get_book("mysql", TRUE, tm, k, NoFault)
                    = get_book("postgres", TRUE, tp, k, NoFault)
              /\ LET dm == delete_book("mysql", TRUE, tm, k, NoFault)
                     dp == delete_book("postgres", TRUE, tp, k, NoFault)
                 IN  /\ dm.res = dp.res
                     /\ Stored("mysql", dm.table) = Stored("postgres", dp.table)
        /\ \A t \in Titles, a \in Authors, y \in Years :
              LET cm == CreateAlone("mysql", tm, nextUuid, clock, t, a, y)
                  cp == CreateAlone("postgres", tp, nextUuid, clock, t, a, y)
              IN  /\ cm.res = cp.res
                  /\ cm.res.kind = "return"
                  /\ Stored("mysql", cm.table) = Stored("postgres", cp.table)

\* the MySQL update_book returned the record with the title it was given,
\* re-read after its commit
C24_Witness ==
    /\ dbType = "mysql"
    /\ out.op = "update_book" /\ out.res.kind = "return"
    /\ out.title # None
    /\ out.res.val # None
    /\ out.res.val[1].title = out.title[1]
    /\ \E r \in RowsOf(table, out.id) : r.title = out.title[1] /\ r.year = 0
    /\ \E r \in table : r.title # out.title[1]

---------------------------------------------------------------------------
(* Claims about the HTTP boundary.                                          *)

BookRoutes == {"GET /books/{id}", "PUT /books/{id}", "DELETE /books/{id}"}

\* the step in which a handler answers the request it served
Answers ==
    \E w \in Tasks :
       calls[w] # <<>> /\ calls'[w] = <<>> /\ calls[w][1].route # "none"

\* C21: GET, PUT and DELETE /books/{id} answer 404 where the adapter found
\* no record (None, or False from delete_book), 500 where the adapter raised,
\* and 200 with the record (204 for DELETE) otherwise; create, update of the
\* year, delete and get of one book, one after the other, answer 201, 200
\* with the new year and the title as created, 204 and 404.
C21_HttpStatus ==
    [][ Answers =>
        /\ \A route \in BookRoutes :
             (resp'.route = route /\ resp'.called)
               => LET res == out'.res
                  IN  /\ res.kind = "raise"
                            => resp'.status = HTTP_500_INTERNAL_SERVER_ERROR
                      /\ (res.kind = "return" /\ route = "DELETE /books/{id}")
                            => resp'.status = IF res.val THEN HTTP_204_NO_CONTENT
                                              ELSE HTTP_404_NOT_FOUND
                      /\ (res.kind = "return" /\ route # "DELETE /books/{id}")
                            => IF res.val = None
                               THEN resp'.status = HTTP_404_NOT_FOUND
                               ELSE /\ resp'.status = HTTP_200_OK
                                    /\ resp'.body = res.val
        /\ e2e'.stage = "created"
              => /\ resp'.status = HTTP_201_CREATED
                 /\ resp'.body # None
                 /\ resp'.body[1].id = UuidStr(e2e'.id)
        /\ e2e'.stage = "updated"
              => /\ resp'.status = HTTP_200_OK
                 /\ resp'.body # None
                 /\ resp'.body[1].year = out'.year[1]
                 /\ resp'.body[1].title = e2e'.title[1]
                 /\ resp'.body[1].id = UuidStr(e2e'.id)
        /\ e2e'.stage = "deleted" => resp'.status = HTTP_204_NO_CONTENT
        /\ e2e'.stage = "got" => resp'.status = HTTP_404_NOT_FOUND
      ]_vars

\* the get that ends the sequence create, update(year), delete, get was
\* answered 404
C21_Witness ==
    /\ e2e.stage = "got"
    /\ resp.route = "GET /books/{id}"
    /\ resp.status = HTTP_404_NOT_FOUND
    /\ out.op = "get_book" /\ out.id = e2e.id

\* C25: GET /health always answers, 200 exactly when the adapter resolved
\* and its health_check returned a record marked healthy, else 503.
C25_HealthStatus ==
    resp.route = "GET /health"
       => /\ resp.status \in {HTTP_200_OK, HTTP_503_SERVICE_UNAVAILABLE}
          /\ resp.status = HTTP_200_OK
                <=> /\ resp.called
                    /\ out.op = "health_check"
                    /\ out.res.kind = "return"
                    /\ out.res.val.status = "healthy"

---------------------------------------------------------------------------
(* Claims about tasks that run at the same time.                            *)

\* C23: update_book with at least one value returns None only if no row had
\* the id when its UPDATE was applied, also when another task deletes the
\* row meanwhile: an update that matched and changed a row does not report
\* the record absent.
C23_UpdateAbsentOnlyIfMissing ==
    \A w \in Tasks :
       ( /\ calls[w] # <<>>
         /\ calls[w][1].op = "update_book"
         /\ calls[w][1].pc = "done"
         /\ calls[w][1].res.kind = "return"
         /\ calls[w][1].res.val = None )
       => ~calls[w][1].matched

\* C28: a create(name) that runs while reset, unregister(name) or
\* clear_registry run ends either with an instance of the class registered
\* for the name or with the not-registered ValueError, never with another
\* failure such as a KeyError; and a reset leaves nothing in the cache.
C28_ResolveUnderMutation ==
    /\ [](\A t \in Threads :
            pc[t] = "done"
               => \/ tret[t].exc = "ValueError: not registered"
                  \/ /\ tret[t].exc = "None"
                     /\ tret[t].obj # NoInstance
                     /\ DictHas(DefaultRegistry, tname[t])
                     /\ tret[t].obj.cls = DictGet(DefaultRegistry, tname[t]))
    /\ [][ \A t \in Threads :
              (pc[t] = "L113" /\ pc'[t] = "end") => instances' = <<>> ]_vars

=============================================================================
